---- MODULE Spec2Model ----
(***************************************************************************)
(* Solaris (shayan-sethi/solarisweb): the subsidy journey wizard, its      *)
(* session and durable state, the ai-chat endpoint and the scoring         *)
(* functions of app/utils/ml_scoring.py and app/utils/vendors.py.          *)
(*                                                                         *)
(* Real numbers are held in fixed point: a value x is the integer          *)
(* x * SCALE (thousandths).  Scores returned by round(x, 1) are held in    *)
(* tenths of a point, money returned by round(x, 2) in hundredths.         *)
(***************************************************************************)
EXTENDS Integers, Sequences, FiniteSets, TLC

VARIABLES
    users,          \* User table: user id -> [journey_completed, has_estimate,
                    \*     last_system_kw, last_net_cost_inr,
                    \*     last_estimated_savings_inr]
    current_user,   \* flask_login current_user: a user id or Anonymous
    session,        \* flask session: key -> value ("subsidy_journey" -> dict)
    submissions,    \* SubsidySubmission table, in insertion order
    config,         \* app.config / environment: GEMINI_API_KEY set, genai importable
    response,       \* the response of the last request
    step1_ok,       \* history: a Step1 submission succeeded and no reset followed
    step2_ok,       \* history: ... and a Step2 submission succeeded after it
    journey_subs,   \* history: submissions stored since the last successful Step1
    call,           \* the last call of a scoring function: inputs and result
    projects,       \* Project table: a set of rows
    uploads,        \* the image files in UPLOAD_FOLDER
    energy_logs,    \* EnergyLog table, in insertion order
    vendor_store    \* the module-level list vendors.solar_vendors

vars == <<users, current_user, session, submissions, config, response,
          step1_ok, step2_ok, journey_subs, call,
          projects, uploads, energy_logs, vendor_store>>

----------------------------------------------------------------------------
(* Bounds *)

MaxSubmissions == 2
MaxProjects == 2
MaxRows == 2

\* rows of the energy_logs table
MaxLogs == 1

\* length of the lists handed to the sorts
MaxScored == 3

----------------------------------------------------------------------------
(* Small values *)

Anonymous == "anonymous"
UserIds == {"u1", "u2"}

\* the addresses typed into the forms, as the handlers store them
Emails == {"asha@solaris.in", "ravi@solaris.in"}

\* the same with an address typed in capitals (an address with blanks around it
\* does not pass the Email() validator)
EmailArgs == Emails \cup {"Asha@Solaris.IN"}

\* email.lower().strip(), on the addresses of EmailArgs
NormalizeEmail(email) == IF email = "Asha@Solaris.IN" THEN "asha@solaris.in" ELSE email
NoValue == "none"

Min2(a, b) == IF a <= b THEN a ELSE b
Max2(a, b) == IF a >= b THEN a ELSE b
Abs(a) == IF a >= 0 THEN a ELSE -a

\* dict without key k
DictPop(d, k) == [x \in (DOMAIN d) \ {k} |-> d[x]]

\* dict.update(e)
DictUpdate(d, e) == [x \in (DOMAIN d) \cup (DOMAIN e) |-> IF x \in DOMAIN e THEN e[x] ELSE d[x]]

EmptyDict == [x \in {} |-> NoValue]

----------------------------------------------------------------------------
(* Requests, forms and responses *)

None == <<>>
Some(x) == <<x>>
Truthy(opt) == opt # None /\ opt[1] # 0
OrZero(opt) == IF Truthy(opt) THEN opt[1] ELSE 0

Methods == {"GET", "POST"}

\* SubsidyNumbersForm submissions, fields as they parse (None: absent or not a
\* number): a valid one, and one failing each validator
SubsidyNumbersForm ==
    {[roof_area |-> Some(30), monthly_bill |-> Some(2000), provider |-> "avg"],
     [roof_area |-> None, monthly_bill |-> Some(2000), provider |-> "avg"],
     [roof_area |-> Some(0), monthly_bill |-> Some(2000), provider |-> "avg"],
     [roof_area |-> Some(30), monthly_bill |-> Some(50), provider |-> "avg"],
     [roof_area |-> Some(30), monthly_bill |-> Some(2000), provider |-> ""]}

\* SubsidySiteForm submissions: a valid one, and one failing each validator
SubsidySiteForm ==
    {[state |-> "Delhi", consumer_segment |-> "residential",
      grid_connection |-> "off-grid", roof_type |-> ""],
     [state |-> "", consumer_segment |-> "residential",
      grid_connection |-> "grid", roof_type |-> ""],
     [state |-> "Delhi", consumer_segment |-> "industrial",
      grid_connection |-> "grid", roof_type |-> ""],
     [state |-> "Delhi", consumer_segment |-> "residential",
      grid_connection |-> "", roof_type |-> ""],
     [state |-> "Delhi", consumer_segment |-> "residential",
      grid_connection |-> "grid", roof_type |-> "thatch"]}

\* provider keys offered by the Step1 select field
ELECTRICITY_PROVIDER_CHOICES == {"avg"}

\* DataRequired on both decimals, NumberRange(min=100) on the bill,
\* DataRequired and a valid choice for the provider
NumbersFormValid(form) ==
    /\ Truthy(form.roof_area)
    /\ Truthy(form.monthly_bill)
    /\ form.monthly_bill[1] >= 100
    /\ form.provider # ""
    /\ form.provider \in ELECTRICITY_PROVIDER_CHOICES

\* DataRequired and valid choices; roof_type is Optional
SiteFormValid(form) ==
    /\ form.state # ""
    /\ form.consumer_segment \in {"residential", "agricultural", "community"}
    /\ form.grid_connection \in {"grid", "off-grid"}
    /\ form.roof_type \in {"", "concrete-rcc", "tin-metal", "tiles", "asbestos",
                           "flat-roof", "sloped-roof", "other"}

NoBody == <<>>

Response(handler, kind, target, flash, status, body) ==
    [handler |-> handler, kind |-> kind, target |-> target, flash |-> flash,
     status |-> status, body |-> body]

Redirect(handler, target, flash) == Response(handler, "redirect", target, flash, 302, NoBody)
Render(handler, template, body) == Response(handler, "render", template, "none", 200, body)
Json(handler, key, status) == Response(handler, "json", key, "none", status, NoBody)

\* @login_required for an anonymous client: the login manager redirects to login_view
LoginRequired(handler) == Redirect(handler, "auth.login", "error")

is_authenticated == current_user # Anonymous

----------------------------------------------------------------------------
(* The session-scoped journey *)

HasJourney(sess) == "subsidy_journey" \in DOMAIN sess

\* session.get("subsidy_journey")
JourneyOf(sess) == IF HasJourney(sess) THEN sess["subsidy_journey"] ELSE EmptyDict

\* _reset_journey: session.pop("subsidy_journey", None)
_reset_journey(sess) == DictPop(sess, "subsidy_journey")

\* _ensure_session: the session after the call (an absent or empty journey is
\* replaced by a fresh {} stored in the session); the dict returned is
\* JourneyOf of the result
_ensure_session(sess) ==
    IF HasJourney(sess) /\ DOMAIN sess["subsidy_journey"] # {}
    THEN sess
    ELSE DictUpdate(sess, [subsidy_journey |-> EmptyDict])

SetJourney(sess, journey) == DictUpdate(sess, [subsidy_journey |-> journey])

\* a set of required keys that leaves out the keys of Step2
required_keys_step1 == {"roof_area", "provider", "monthly_bill"}

required_keys == {"roof_area", "state", "consumer_segment", "grid_connection",
                  "provider", "monthly_bill"}

----------------------------------------------------------------------------
(* Durable records *)

\* a new User row: the journey is not completed and no estimate is stored
NewUser(email) ==
    [email |-> email, journey_completed |-> FALSE, has_estimate |-> FALSE,
     last_system_kw |-> None, last_net_cost_inr |-> None,
     last_estimated_savings_inr |-> None]

\* journey.get(key)
Get(journey, key) == IF key \in DOMAIN journey THEN journey[key] ELSE NoValue

\* float(journey.get(key, 0)) if journey.get(key) else None
FloatOrNull(journey, key) ==
    IF key \in DOMAIN journey /\ journey[key] # 0 THEN Some(journey[key]) ELSE None

\* SubsidySubmission(user_id=..., roof_area=..., ...) built from the journey
SubsidySubmission(user_id, journey) ==
    [user_id |-> user_id,
     roof_area |-> FloatOrNull(journey, "roof_area"),
     monthly_bill |-> FloatOrNull(journey, "monthly_bill"),
     provider |-> Get(journey, "provider"),
     state |-> Get(journey, "state"),
     consumer_segment |-> Get(journey, "consumer_segment"),
     grid_connection |-> Get(journey, "grid_connection"),
     roof_type |-> Get(journey, "roof_type")]

\* db.session.add(submission); db.session.commit()
AddSubmission(subs, submission) == Append(subs, submission)

----------------------------------------------------------------------------
(* app/utils: the unit, sizing and subsidy estimators *)

\* get_provider_tariff(provider_key), in rupees per kWh: the tariff of the
\* provider, and the same fallback for an unknown one
get_provider_tariff(provider_key) == 6

\* estimate_monthly_units_from_bill(bill, provider_key): the bill divided by
\* the tariff, None without a bill
estimate_monthly_units_from_bill(bill, provider_key) ==
    IF Truthy(bill) /\ bill[1] > 0
    THEN Some(bill[1] \div get_provider_tariff(provider_key))
    ELSE None

\* estimate_system_size_kw(roof_area, annual_consumption_kwh), in thousandths
\* of a kW: the smaller of the area-based size (10 m2 per kW) and the
\* demand-based size (1100 kWh per kW and year) among the inputs provided,
\* clamped to 1..10 kW; 0 when neither input is provided
estimate_system_size_kw(roof_area, annual_consumption_kwh) ==
    LET area_kw == IF Truthy(roof_area) THEN roof_area[1] * 100 ELSE 0
        demand_kw == IF Truthy(annual_consumption_kwh)
                     THEN (annual_consumption_kwh[1] * 1000) \div 1100 ELSE 0
        size == IF Truthy(roof_area) /\ Truthy(annual_consumption_kwh)
                THEN Min2(area_kw, demand_kw)
                ELSE IF Truthy(roof_area) THEN area_kw ELSE demand_kw
    IN IF ~Truthy(roof_area) /\ ~Truthy(annual_consumption_kwh) THEN 0
       ELSE Min2(10000, Max2(1000, size))

\* estimate_subsidy(kw), kw in thousandths and money in rupees: a base cost
\* per kW, the central subsidy by slabs of kW with a cap, a state subsidy with
\* a cap, and the net cost floored at 0
estimate_subsidy(kw) ==
    LET gross_cost == kw * 60
        central == IF kw <= 2000 THEN kw * 30
                   ELSE Min2(78000, 60000 + (kw - 2000) * 18)
        state_subsidy == Min2(kw * 10, 20000)
    IN [gross_cost |-> gross_cost, central |-> central, state_subsidy |-> state_subsidy,
        net_cost |-> Max2(0, gross_cost - central - state_subsidy)]

----------------------------------------------------------------------------
(* subsidy blueprint: what the handlers hand to the estimators *)

\* journey.get(key) of a numeric key: None when the key is absent
GetNumber(journey, key) == IF key \in DOMAIN journey THEN Some(journey[key]) ELSE None

\* x and None
AndNone(x) == IF Truthy(x) THEN None ELSE x

\* x or None
OrNone(x) == IF Truthy(x) THEN x ELSE None

\* estimated_monthly_units * 12 if estimated_monthly_units else None
AnnualConsumption(estimated_monthly_units) ==
    IF Truthy(estimated_monthly_units) THEN Some(estimated_monthly_units[1] * 12) ELSE None

\* the arguments of a call of estimate_system_size_kw
SizingArgs(roof_area, annual_consumption) ==
    [roof_area |-> OrNone(roof_area), annual_consumption_kwh |-> OrNone(annual_consumption)]

\* the call of estimate_system_size_kw and what it returned
Sizing(roof_area, annual_consumption) ==
    LET args == SizingArgs(roof_area, annual_consumption) IN
    [args |-> args,
     recommended_kw |-> estimate_system_size_kw(args.roof_area, args.annual_consumption_kwh)]

\* a handler that calls the estimator whatever it knows
SizingGuardNone(roof_area, annual_consumption) == TRUE

\* if roof_area or annual_consumption: of vendors and view_data
SizingGuard(roof_area, annual_consumption) == Truthy(roof_area) \/ Truthy(annual_consumption)

\* Results: the estimator is called once the required keys are there
ResultsSizing(journey) ==
    Sizing(GetNumber(journey, "roof_area"),
           AnnualConsumption(estimate_monthly_units_from_bill(
               GetNumber(journey, "monthly_bill"), Get(journey, "provider"))))

\* vendors: the call of the estimator, None when it is not made
VendorsSizing(journey) ==
    LET roof_area == GetNumber(journey, "roof_area")
        annual_consumption == AnnualConsumption(estimate_monthly_units_from_bill(
                                  GetNumber(journey, "monthly_bill"), Get(journey, "provider")))
    IN IF SizingGuard(roof_area, annual_consumption)
       THEN Some(Sizing(roof_area, annual_consumption)) ELSE None

\* view_data: the bill is converted only with a bill and a provider
ViewSizing(journey) ==
    LET roof_area == GetNumber(journey, "roof_area")
        monthly_bill == GetNumber(journey, "monthly_bill")
        provider_key == Get(journey, "provider")
        estimated_monthly_units ==
            IF Truthy(monthly_bill) /\ provider_key \notin {NoValue, ""}
            THEN estimate_monthly_units_from_bill(monthly_bill, provider_key) ELSE None
        annual_consumption == AnnualConsumption(estimated_monthly_units)
    IN IF SizingGuard(roof_area, annual_consumption)
       THEN Some(Sizing(roof_area, annual_consumption)) ELSE None

\* a Results that stores the gross cost
StoredNetCostGross(result) == result.gross_cost

\* current_user.last_net_cost_inr = result.net_cost
StoredNetCost(result) == result.net_cost

\* estimated_annual_savings of Results, in rupees: the consumption the system
\* offsets at the provider's tariff (recommended_kw in thousandths, 1100 kWh
\* per kW and year); 60% of the bills without a consumption
EstimatedAnnualSavings(journey, sizing) ==
    LET annual_consumption == sizing.args.annual_consumption_kwh
        estimated_annual_output == (sizing.recommended_kw * 1100) \div 1000
        tariff == get_provider_tariff(Get(journey, "provider"))
    IN IF Truthy(annual_consumption)
       THEN Min2(annual_consumption[1], estimated_annual_output) * tariff
       ELSE IF Truthy(GetNumber(journey, "monthly_bill"))
       THEN (journey["monthly_bill"] * 12 * 6) \div 10
       ELSE (estimated_annual_output * 8 * tariff) \div 10

\* the user row after a Results request that rendered (has_estimate:
\* last_estimate_updated_at is set)
ResultsUser(user, journey, sizing, result) ==
    [user EXCEPT !.journey_completed = TRUE, !.has_estimate = TRUE,
                 !.last_system_kw = Some(sizing.recommended_kw),
                 !.last_net_cost_inr = Some(StoredNetCost(result)),
                 !.last_estimated_savings_inr =
                     Some(EstimatedAnnualSavings(journey, sizing))]

----------------------------------------------------------------------------
(* subsidy blueprint: Step1, Step2, Results, restart, view *)

\* the journey dict after Step1's journey.update({...})
Step1Journey(journey, form) ==
    DictUpdate(journey, [roof_area |-> OrZero(form.roof_area),
                         monthly_bill |-> OrZero(form.monthly_bill),
                         provider |-> form.provider])

\* the journey dict after Step2's journey.update({...})
Step2Journey(journey, form) ==
    DictUpdate(journey, [state |-> form.state,
                         consumer_segment |-> form.consumer_segment,
                         grid_connection |-> form.grid_connection,
                         roof_type |-> form.roof_type])

\* a Step1 that keeps the journey it finds
EligibilityResetKeep(sess) == sess

\* Step1's first statement
EligibilityReset(sess) == _reset_journey(sess)

\* GET/POST /subsidy/
eligibility(method, form) ==
    /\ UNCHANGED <<call, projects, uploads, energy_logs, vendor_store>>
    /\ UNCHANGED <<users, current_user, submissions, config>>
    /\ IF ~is_authenticated
       THEN /\ response' = LoginRequired("eligibility")
            /\ UNCHANGED <<session, step1_ok, step2_ok, journey_subs>>
       ELSE LET reset == EligibilityReset(session) IN
            IF method = "POST" /\ NumbersFormValid(form)
            THEN /\ session' = SetJourney(reset,
                                   Step1Journey(JourneyOf(_ensure_session(reset)), form))
                 /\ response' = Redirect("eligibility", "subsidy.site", "none")
                 /\ step1_ok' = TRUE
                 /\ step2_ok' = FALSE
                 /\ journey_subs' = 0
            ELSE /\ session' = reset
                 /\ response' = Render("eligibility", "subsidy/step1_numbers.html", NoBody)
                 /\ step1_ok' = FALSE
                 /\ step2_ok' = FALSE
                 /\ UNCHANGED journey_subs

\* a Step2 that checks no precondition
SitePrerequisiteNone(journey) == TRUE

\* Step2's precondition: the Step1 key is in the journey
SitePrerequisite(journey) == "roof_area" \in DOMAIN journey

\* GET/POST /subsidy/site
site(method, form) ==
    /\ UNCHANGED <<call, projects, uploads, energy_logs, vendor_store>>
    /\ UNCHANGED <<users, current_user, submissions, config, step1_ok, journey_subs>>
    /\ IF ~is_authenticated
       THEN /\ response' = LoginRequired("site")
            /\ UNCHANGED <<session, step2_ok>>
       ELSE LET ensured == _ensure_session(session)
                journey == JourneyOf(ensured) IN
            IF ~SitePrerequisite(journey)
            THEN /\ session' = ensured
                 /\ response' = Redirect("site", "subsidy.eligibility", "error")
                 /\ UNCHANGED step2_ok
            ELSE IF method = "POST" /\ SiteFormValid(form)
            THEN /\ session' = SetJourney(ensured, Step2Journey(journey, form))
                 /\ response' = Redirect("site", "subsidy.results", "none")
                 /\ step2_ok' = step1_ok
            ELSE /\ session' = ensured
                 /\ response' = Render("site", "subsidy/step3_site.html", NoBody)
                 /\ UNCHANGED step2_ok

\* a Results that checks the Step1 key only, as Step2 does
ResultsPrerequisiteRoofArea(journey) == "roof_area" \in DOMAIN journey

\* Results' precondition: required_keys.issubset(journey.keys())
ResultsPrerequisite(journey) == required_keys \subseteq DOMAIN journey

\* a Results that pops the journey once it has rendered
ResultsSessionDiscard(sess) == _reset_journey(sess)

\* the session at the end of a Results request that rendered
ResultsSession(sess) == sess

\* submissions after a Results request that rendered
ResultsSubmissions(subs, user_id, journey) ==
    AddSubmission(subs, SubsidySubmission(user_id, journey))

CoverageArgs == {"all", "state"}

\* GET /subsidy/results?coverage=...
results(coverage_filter) ==
    /\ UNCHANGED <<call, projects, uploads, energy_logs, vendor_store>>
    /\ UNCHANGED <<current_user, config, step1_ok, step2_ok>>
    /\ IF ~is_authenticated
       THEN /\ response' = LoginRequired("results")
            /\ UNCHANGED <<session, users, submissions, journey_subs>>
       ELSE LET ensured == _ensure_session(session)
                journey == JourneyOf(ensured) IN
            IF ~ResultsPrerequisite(journey)
            THEN /\ session' = ensured
                 /\ response' = Redirect("results", "subsidy.eligibility", "error")
                 /\ UNCHANGED <<users, submissions, journey_subs>>
            ELSE LET sizing == ResultsSizing(journey)
                     result == estimate_subsidy(sizing.recommended_kw) IN
                 /\ Len(submissions) < MaxSubmissions
                 /\ users' = [users EXCEPT ![current_user] =
                                 ResultsUser(users[current_user], journey, sizing,
                                             result)]
                 /\ submissions' = ResultsSubmissions(submissions, current_user, journey)
                 /\ journey_subs' = journey_subs + Len(submissions') - Len(submissions)
                 /\ session' = ResultsSession(ensured)
                 /\ response' = Render("results", "subsidy/step4_results.html",
                                       [coverage |-> coverage_filter,
                                        sizing |-> Some(sizing),
                                        recommended_kw |-> Some(sizing.recommended_kw),
                                        subsidy_kw |-> sizing.recommended_kw,
                                        result |-> result])

\* a restart that leaves the session as it is
RestartSessionKeep(sess) == sess

\* the session after restart's _reset_journey()
RestartSession(sess) == _reset_journey(sess)

\* a restart that flips the flag whatever it was
RestartUserToggle(user) == [user EXCEPT !.journey_completed = ~@]

\* the user row after restart
RestartUser(user) ==
    IF user.journey_completed THEN [user EXCEPT !.journey_completed = FALSE] ELSE user

\* POST /subsidy/restart
restart ==
    /\ UNCHANGED <<call, projects, uploads, energy_logs, vendor_store>>
    /\ UNCHANGED <<current_user, submissions, config, journey_subs>>
    /\ IF ~is_authenticated
       THEN /\ response' = LoginRequired("restart")
            /\ UNCHANGED <<session, users, step1_ok, step2_ok>>
       ELSE /\ users' = [users EXCEPT ![current_user] = RestartUser(@)]
            /\ session' = RestartSession(session)
            /\ response' = Redirect("restart", "subsidy.eligibility", "none")
            /\ step1_ok' = FALSE
            /\ step2_ok' = FALSE

\* GET /subsidy/view
view_data ==
    /\ UNCHANGED <<call, projects, uploads, energy_logs, vendor_store>>
    /\ UNCHANGED <<users, current_user, submissions, config, step1_ok, step2_ok,
                   journey_subs>>
    /\ IF ~is_authenticated
       THEN /\ response' = LoginRequired("view_data")
            /\ UNCHANGED session
       ELSE LET ensured == _ensure_session(session)
                journey == JourneyOf(ensured) IN
            /\ session' = ensured
            /\ response' = IF DOMAIN journey = {}
                           THEN Redirect("view_data", "subsidy.eligibility", "error")
                           ELSE LET sizing == ViewSizing(journey) IN
                                Render("view_data", "subsidy/view_data.html",
                                       [sizing |-> sizing,
                                        recommended_kw |->
                                            IF sizing = None THEN None
                                            ELSE Some(sizing[1].recommended_kw)])

----------------------------------------------------------------------------
(* auth blueprint *)

\* where an authenticated user is sent from login and register
HomeOf(user) == IF user.journey_completed THEN "dashboard.index" ELSE "subsidy.eligibility"

\* User.query.filter_by(email=email): the rows with that address
UsersByEmail(email) == {u \in DOMAIN users : users[u].email = email}

\* the primary key of the next User row: keys are handed out in order
NextUserId == IF "u1" \notin DOMAIN users THEN "u1" ELSE "u2"

\* GET/POST /auth/register/ with a valid form
register(email) ==
    /\ UNCHANGED <<call, projects, uploads, energy_logs, vendor_store>>
    /\ UNCHANGED <<session, submissions, config, step1_ok, step2_ok, journey_subs>>
    /\ IF is_authenticated
       THEN /\ response' = Redirect("register", HomeOf(users[current_user]), "none")
            /\ UNCHANGED <<users, current_user>>
       ELSE IF UsersByEmail(NormalizeEmail(email)) # {}
       THEN /\ response' = Response("register", "render", "auth/register.html", "error",
                                    200, NoBody)
            /\ UNCHANGED <<users, current_user>>
       ELSE /\ DOMAIN users # UserIds
            /\ users' = (NextUserId :> NewUser(NormalizeEmail(email))) @@ users
            /\ current_user' = NextUserId
            /\ response' = Redirect("register", "subsidy.eligibility", "success")

\* POST /auth/login/ with a valid form
login(email, password_ok) ==
    /\ UNCHANGED <<call, projects, uploads, energy_logs, vendor_store>>
    /\ UNCHANGED <<users, session, submissions, config, step1_ok, step2_ok, journey_subs>>
    /\ IF is_authenticated
       THEN /\ response' = Redirect("login", HomeOf(users[current_user]), "none")
            /\ UNCHANGED current_user
       ELSE IF UsersByEmail(NormalizeEmail(email)) = {} \/ ~password_ok
       THEN /\ response' = Response("login", "render", "auth/login.html", "error",
                                    200, NoBody)
            /\ UNCHANGED current_user
       ELSE \E user \in UsersByEmail(NormalizeEmail(email)) :
                /\ current_user' = user
                /\ response' = Redirect("login", HomeOf(users[user]), "success")

\* POST /auth/logout: logout_user() drops the login keys and keeps the rest of
\* the session
logout ==
    /\ UNCHANGED <<call, projects, uploads, energy_logs, vendor_store>>
    /\ UNCHANGED <<users, session, submissions, config, step1_ok, step2_ok, journey_subs>>
    /\ IF ~is_authenticated
       THEN /\ response' = LoginRequired("logout")
            /\ UNCHANGED current_user
       ELSE /\ current_user' = Anonymous
            /\ response' = Redirect("logout", "main.home", "success")

----------------------------------------------------------------------------
(* ai-chat *)

\* request bodies: no JSON body, a JSON value that is no object, or an object
\* with or without a "message" and a "step"
ChatMessages == {NoValue, "", "hello"}
ChatSteps == {1, 3}
ChatBodies ==
    {[kind |-> "absent", message |-> NoValue, step |-> 1],
     [kind |-> "array", message |-> NoValue, step |-> 1]}
    \cup [kind : {"object"}, message : ChatMessages, step : ChatSteps]

UpstreamOutcomes == {"ok", "error"}

\* data.get("message", "")
UserMessage(body) == IF body.message = NoValue THEN "" ELSE body.message

\* the request carries no user message
MessageMissing(body) == body.kind # "object" \/ UserMessage(body) = ""

\* an ai_chat whose only handler is "except ImportError": the other
\* exceptions leave the view and the framework answers with its HTML error page
AiChatAnswerImportErrorOnly(cfg, body, upstream) ==
    IF ~cfg.genai_importable THEN <<500, "error">>
    ELSE IF ~cfg.GEMINI_API_KEY THEN <<500, "error">>
    ELSE IF body.kind # "object" THEN <<500, "exception">>
    ELSE IF UserMessage(body) = "" THEN <<400, "error">>
    ELSE IF upstream = "error" THEN <<500, "exception">>
    ELSE <<200, "response">>

\* the status and JSON key ai_chat answers with
AiChatAnswer(cfg, body, upstream) ==
    IF ~cfg.genai_importable THEN <<500, "error">>            \* except ImportError
    ELSE IF ~cfg.GEMINI_API_KEY THEN <<500, "error">>         \* if not api_key
    ELSE IF body.kind # "object" THEN <<500, "error">>        \* data.get raises
    ELSE IF UserMessage(body) = "" THEN <<400, "error">>      \* if not user_message
    ELSE IF upstream = "error" THEN <<500, "error">>          \* except Exception
    ELSE <<200, "response">>

\* whether the handler reaches the step == 3 block that reads the journey
AiChatReadsJourney(cfg, body) ==
    /\ cfg.genai_importable
    /\ cfg.GEMINI_API_KEY
    /\ body.kind = "object"
    /\ UserMessage(body) # ""
    /\ body.step = 3

\* how often the handler calls model.generate_content: the one call of line 501,
\* which stands in no loop and is not repeated by either except clause
UpstreamCalls(cfg, body) ==
    IF /\ cfg.genai_importable
       /\ cfg.GEMINI_API_KEY
       /\ body.kind = "object"
       /\ UserMessage(body) # ""
    THEN 1 ELSE 0

\* POST /subsidy/ai-chat
ai_chat(body, upstream) ==
    /\ UNCHANGED <<call, projects, uploads, energy_logs, vendor_store>>
    /\ UNCHANGED <<users, current_user, submissions, config, step1_ok, step2_ok,
                   journey_subs>>
    /\ IF ~is_authenticated
       THEN /\ response' = LoginRequired("ai_chat")
            /\ UNCHANGED session
       ELSE LET answer == AiChatAnswer(config, body, upstream) IN
            /\ session' = IF AiChatReadsJourney(config, body)
                          THEN _ensure_session(session) ELSE session
            /\ response' = Response("ai_chat", "json", answer[2], "none", answer[1],
                                    [missing |-> MessageMissing(body),
                                     upstream_calls |-> UpstreamCalls(config, body)])

----------------------------------------------------------------------------
(* Text: a Python str is the sequence of its characters *)

\* the characters of each highlight tag of solar_vendors
Chars(s) ==
    CASE s = "MNRE empanelled" -> <<"M", "N", "R", "E", " ", "e", "m", "p", "a", "n", "e", "l", "l", "e", "d">>
      [] s = "Net-meter support" -> <<"N", "e", "t", "-", "m", "e", "t", "e", "r", " ", "s", "u", "p", "p", "o", "r", "t">>
      [] s = "24x7 monitoring" -> <<"2", "4", "x", "7", " ", "m", "o", "n", "i", "t", "o", "r", "i", "n", "g">>
      [] s = "Hybrid inverter experts" -> <<"H", "y", "b", "r", "i", "d", " ", "i", "n", "v", "e", "r", "t", "e", "r", " ", "e", "x", "p", "e", "r", "t", "s">>
      [] s = "O&M packages" -> <<"O", "&", "M", " ", "p", "a", "c", "k", "a", "g", "e", "s">>
      [] s = "Battery integration" -> <<"B", "a", "t", "t", "e", "r", "y", " ", "i", "n", "t", "e", "g", "r", "a", "t", "i", "o", "n">>
      [] s = "5-year O&M included" -> <<"5", "-", "y", "e", "a", "r", " ", "O", "&", "M", " ", "i", "n", "c", "l", "u", "d", "e", "d">>
      [] s = "Real-time app" -> <<"R", "e", "a", "l", "-", "t", "i", "m", "e", " ", "a", "p", "p">>
      [] s = "EMI options" -> <<"E", "M", "I", " ", "o", "p", "t", "i", "o", "n", "s">>
      [] s = "PM-KUSUM specialists" -> <<"P", "M", "-", "K", "U", "S", "U", "M", " ", "s", "p", "e", "c", "i", "a", "l", "i", "s", "t", "s">>
      [] s = "RBI/NABARD loan support" -> <<"R", "B", "I", "/", "N", "A", "B", "A", "R", "D", " ", "l", "o", "a", "n", " ", "s", "u", "p", "p", "o", "r", "t">>
      [] s = "On-field service" -> <<"O", "n", "-", "f", "i", "e", "l", "d", " ", "s", "e", "r", "v", "i", "c", "e">>
      [] s = "Remote diagnostics" -> <<"R", "e", "m", "o", "t", "e", " ", "d", "i", "a", "g", "n", "o", "s", "t", "i", "c", "s">>
      [] s = "Smart EV-ready" -> <<"S", "m", "a", "r", "t", " ", "E", "V", "-", "r", "e", "a", "d", "y">>
      [] s = "Rapid installation" -> <<"R", "a", "p", "i", "d", " ", "i", "n", "s", "t", "a", "l", "l", "a", "t", "i", "o", "n">>

positive_words ==
    <<<<"e", "x", "c", "e", "l", "l", "e", "n", "t">>,
      <<"g", "r", "e", "a", "t">>,
      <<"g", "o", "o", "d">>,
      <<"a", "m", "a", "z", "i", "n", "g">>,
      <<"w", "o", "n", "d", "e", "r", "f", "u", "l">>,
      <<"p", "e", "r", "f", "e", "c", "t">>,
      <<"s", "a", "t", "i", "s", "f", "i", "e", "d">>,
      <<"h", "a", "p", "p", "y">>,
      <<"r", "e", "c", "o", "m", "m", "e", "n", "d">>,
      <<"p", "r", "o", "f", "e", "s", "s", "i", "o", "n", "a", "l">>,
      <<"q", "u", "a", "l", "i", "t", "y">>,
      <<"r", "e", "l", "i", "a", "b", "l", "e">>,
      <<"t", "r", "u", "s", "t", "w", "o", "r", "t", "h", "y">>,
      <<"e", "f", "f", "i", "c", "i", "e", "n", "t">>,
      <<"f", "a", "s", "t">>,
      <<"q", "u", "i", "c", "k">>>>

negative_words ==
    <<<<"b", "a", "d">>,
      <<"p", "o", "o", "r">>,
      <<"t", "e", "r", "r", "i", "b", "l", "e">>,
      <<"a", "w", "f", "u", "l">>,
      <<"d", "i", "s", "a", "p", "p", "o", "i", "n", "t", "e", "d">>,
      <<"w", "o", "r", "s", "t">>,
      <<"s", "l", "o", "w">>,
      <<"d", "e", "l", "a", "y", "e", "d">>,
      <<"b", "r", "o", "k", "e", "n">>,
      <<"f", "a", "i", "l", "e", "d">>,
      <<"c", "o", "m", "p", "l", "a", "i", "n", "t">>,
      <<"i", "s", "s", "u", "e">>,
      <<"p", "r", "o", "b", "l", "e", "m">>,
      <<"u", "n", "r", "e", "l", "i", "a", "b", "l", "e">>,
      <<"e", "x", "p", "e", "n", "s", "i", "v", "e">>,
      <<"o", "v", "e", "r", "p", "r", "i", "c", "e", "d">>>>

UPPERCASE == <<"A", "B", "C", "D", "E", "F", "G", "H", "I", "J", "K", "L", "M", "N", "O", "P", "Q", "R", "S", "T", "U", "V", "W", "X", "Y", "Z">>
LOWERCASE == <<"a", "b", "c", "d", "e", "f", "g", "h", "i", "j", "k", "l", "m", "n", "o", "p", "q", "r", "s", "t", "u", "v", "w", "x", "y", "z">>

W_MNRE == <<"M", "N", "R", "E">>
W_empanelled == <<"e", "m", "p", "a", "n", "e", "l", "l", "e", "d">>
W_year == <<"y", "e", "a", "r">>
W_OandM == <<"O", "&", "M">>

IndexOf(seq, c) == CHOOSE i \in 1..Len(seq) : seq[i] = c
InSeq(seq, c) == \E i \in 1..Len(seq) : seq[i] = c

LowerChar(c) == IF InSeq(UPPERCASE, c) THEN LOWERCASE[IndexOf(UPPERCASE, c)] ELSE c
UpperChar(c) == IF InSeq(LOWERCASE, c) THEN UPPERCASE[IndexOf(LOWERCASE, c)] ELSE c

\* str.lower(), str.upper()
Lower(t) == [i \in 1..Len(t) |-> LowerChar(t[i])]
Upper(t) == [i \in 1..Len(t) |-> UpperChar(t[i])]

\* w in t
Contains(t, w) ==
    \E i \in 1..(Len(t) - Len(w) + 1) : SubSeq(t, i, i + Len(w) - 1) = w

IsDigit(c) == c \in {"0", "1", "2", "3", "4", "5", "6", "7", "8", "9"}
DigitValue(c) == IndexOf(<<"0", "1", "2", "3", "4", "5", "6", "7", "8", "9">>, c) - 1

\* " ".join(parts)
RECURSIVE Join(_)
Join(parts) ==
    IF Len(parts) = 0 THEN <<>>
    ELSE IF Len(parts) = 1 THEN parts[1]
    ELSE parts[1] \o <<" ">> \o Join(Tail(parts))

\* str.split(): the maximal runs of non-blank characters
RECURSIVE SplitFrom(_, _, _)
SplitFrom(t, i, word) ==
    IF i > Len(t) THEN (IF word = <<>> THEN <<>> ELSE <<word>>)
    ELSE IF t[i] = " " THEN (IF word = <<>> THEN <<>> ELSE <<word>>) \o SplitFrom(t, i + 1, <<>>)
    ELSE SplitFrom(t, i + 1, Append(word, t[i]))

Split(t) == SplitFrom(t, 1, <<>>)

\* str.isdigit()
IsDigitString(w) == Len(w) > 0 /\ \A i \in 1..Len(w) : IsDigit(w[i])

\* int(w) for a string of digits
RECURSIVE ParseDigits(_)
ParseDigits(w) ==
    IF Len(w) = 0 THEN 0
    ELSE 10 * ParseDigits(SubSeq(w, 1, Len(w) - 1)) + DigitValue(w[Len(w)])

\* sum(1 for word in words if word in text)
CountContained(words, text) == Cardinality({i \in 1..Len(words) : Contains(text, words[i])})

----------------------------------------------------------------------------
(* Fixed-point arithmetic *)

\* three decimal digits
SCALE == 10 * 10 * 10

\* a / b rounded to the nearest integer (b > 0), halves away from zero
DivRound(a, b) ==
    LET n == Abs(a)
        q == n \div b
        r == n % b
        m == IF 2 * r >= b THEN q + 1 ELSE q
    IN IF a >= 0 THEN m ELSE -m

\* a / b rounded to the nearest integer (b > 0), halves to the even neighbour,
\* as round() does.  (A binary float that stands for a decimal tie lies a
\* hair above or below it, so at exact ties the float result is one of the
\* two neighbours; every other value rounds as here.)
RoundHalfEven(a, b) ==
    LET q == a \div b
        r == a - q * b
    IN IF 2 * r < b THEN q
       ELSE IF 2 * r > b THEN q + 1
       ELSE IF q % 2 = 0 THEN q ELSE q + 1

\* round(x, 1) of a value in thousandths, in tenths
Round1(x) == RoundHalfEven(x, 100)

----------------------------------------------------------------------------
(* app/utils/ml_scoring.py: vendor score and sentiment *)

\* analyze_sentiment_simple(text) in thousandths
analyze_sentiment_simple(text) ==
    IF Len(text) = 0 THEN 500
    ELSE LET text_lower == Lower(text)
             positive_count == CountContained(positive_words, text_lower)
             negative_count == CountContained(negative_words, text_lower)
             total_sentiment_words == positive_count + negative_count
         IN IF total_sentiment_words = 0 THEN 500
            ELSE Min2(1000, Max2(0, DivRound(positive_count * 1200, total_sentiment_words)))

\* the score before the final clamp, in ten-thousandths of a point: rating,
\* sentiment_score, price_fairness, completion_rate and warranty_years are in
\* thousandths, years_experience is a whole number;
\* (total_score + experience_bonus) * 0.9 + (rating / 5.0) * 10
VendorTotalScore(rating, mnre_verified, sentiment_score, price_fairness, completion_rate, warranty_years, years_experience) ==
    LET sentiment_component == sentiment_score * 40
        mnre_component == IF mnre_verified THEN 20 * SCALE ELSE 0
        price_component == price_fairness * 15
        completion_component == completion_rate * 15
        warranty_component == Min2(10 * SCALE, Max2(2 * SCALE, warranty_years * 2))
        total_score == sentiment_component + mnre_component + price_component
                       + completion_component + warranty_component
        experience_bonus == Min2(5 * SCALE, (years_experience * SCALE) \div 2)
        rating_component == rating * 2
    IN (total_score + experience_bonus) * 9 + rating_component * 10

\* the rounded score without the clamp
ClampVendorScoreNone(total_score) == RoundHalfEven(total_score, SCALE)

\* min(100, max(0, round(total_score, 1))) in tenths of a point
ClampVendorScore(total_score) == Min2(1000, Max2(0, RoundHalfEven(total_score, SCALE)))

\* ml_scoring.calculate_vendor_score, in tenths of a point
ml_calculate_vendor_score(rating, mnre_verified, sentiment_score, price_fairness, completion_rate, warranty_years, years_experience) ==
    ClampVendorScore(VendorTotalScore(rating, mnre_verified, sentiment_score,
                                      price_fairness, completion_rate, warranty_years,
                                      years_experience))

----------------------------------------------------------------------------
(* The static vendor list *)

\* the module-level list, which no code of the repository assigns or mutates
\* (rating in tenths of a star; the display-only fields price_range_inr,
\* contact and website are left out)
solar_vendors ==
  <<
    [id |-> "sunrise-energy",
     name |-> "Sunrise Energy Solutions",
     rating |-> 46,
     base_price_per_kw_inr |-> 68000,
     locations |-> <<"Delhi", "Noida", "Gurugram">>,
     years_experience |-> 9,
     highlights |-> <<"MNRE empanelled", "Net-meter support", "24x7 monitoring">>],
    [id |-> "surya-grid",
     name |-> "SuryaGrid EPC",
     rating |-> 43,
     base_price_per_kw_inr |-> 61000,
     locations |-> <<"Mumbai", "Pune", "Nashik">>,
     years_experience |-> 12,
     highlights |-> <<"Hybrid inverter experts", "O&M packages", "Battery integration">>],
    [id |-> "greenbeam",
     name |-> "GreenBeam Solar",
     rating |-> 48,
     base_price_per_kw_inr |-> 67000,
     locations |-> <<"Ahmedabad", "Vadodara", "Surat">>,
     years_experience |-> 7,
     highlights |-> <<"5-year O&M included", "Real-time app", "EMI options">>],
    [id |-> "agripower",
     name |-> "AgriPower Pumps",
     rating |-> 42,
     base_price_per_kw_inr |-> 64000,
     locations |-> <<"Jaipur", "Udaipur", "Indore">>,
     years_experience |-> 11,
     highlights |-> <<"PM-KUSUM specialists", "RBI/NABARD loan support", "On-field service">>],
    [id |-> "urban-spark",
     name |-> "UrbanSpark Rooftech",
     rating |-> 45,
     base_price_per_kw_inr |-> 59000,
     locations |-> <<"Bengaluru", "Mysuru", "Hyderabad">>,
     years_experience |-> 8,
     highlights |-> <<"Remote diagnostics", "Smart EV-ready", "Rapid installation">>]
  >>

----------------------------------------------------------------------------
(* app/utils/vendors.py *)

RECURSIVE MaxOf(_)
MaxOf(seq) == IF Len(seq) = 1 THEN seq[1] ELSE Max2(seq[1], MaxOf(Tail(seq)))
RECURSIVE MinOf(_)
MinOf(seq) == IF Len(seq) = 1 THEN seq[1] ELSE Min2(seq[1], MinOf(Tail(seq)))
RECURSIVE SumOf(_)
SumOf(seq) == IF Len(seq) = 0 THEN 0 ELSE seq[1] + SumOf(Tail(seq))

Prices(all_vendors) == [i \in 1..Len(all_vendors) |-> all_vendors[i].base_price_per_kw_inr]
HighlightChars(vendor) == [i \in 1..Len(vendor.highlights) |-> Chars(vendor.highlights[i])]

\* any("MNRE" in h.upper() or "empanelled" in h.lower() for h in highlights)
MnreVerified(vendor) ==
    \E i \in 1..Len(vendor.highlights) :
        LET h == Chars(vendor.highlights[i]) IN
        Contains(Upper(h), W_MNRE) \/ Contains(Lower(h), W_empanelled)

\* the all-digit words of h
DigitWords(h) == SelectSeq(Split(h), IsDigitString)

\* the warranty loop: the first highlight that mentions a year, holds a digit
\* and has an all-digit word sets the warranty; one without such a word raises
\* IndexError, which the bare except swallows, and the loop goes on
RECURSIVE WarrantyFrom(_, _)
WarrantyFrom(highlights, i) ==
    IF i > Len(highlights) THEN 5 * SCALE
    ELSE LET h == highlights[i] IN
         IF Contains(Lower(h), W_year) /\ (\E k \in 1..Len(h) : IsDigit(h[k]))
            /\ Len(DigitWords(h)) > 0
         THEN ParseDigits(DigitWords(h)[1]) * SCALE
         ELSE WarrantyFrom(highlights, i + 1)

\* price_fairness in thousandths
PriceFairness(vendor, all_vendors) ==
    LET max_price == MaxOf(Prices(all_vendors))
        min_price == MinOf(Prices(all_vendors))
        price_range == IF max_price > min_price THEN max_price - min_price ELSE 1
    IN IF price_range > 0
       THEN SCALE - DivRound((vendor.base_price_per_kw_inr - min_price) * SCALE, price_range)
       ELSE 500

\* vendors.calculate_vendor_score(vendor), which reads solar_vendors for prices
calculate_vendor_score(vendor) ==
    LET rating == vendor.rating * 100
        sentiment_score == analyze_sentiment_simple(Join(HighlightChars(vendor)))
        completion_rate == Min2(SCALE, rating \div 5)
    IN ml_calculate_vendor_score(rating, MnreVerified(vendor), sentiment_score,
                                 PriceFairness(vendor, solar_vendors), completion_rate,
                                 WarrantyFrom(HighlightChars(vendor), 1),
                                 vendor.years_experience)

\* get_vendor_recommendation_reasons(vendor, all_vendors); ratings in tenths
get_vendor_recommendation_reasons(vendor, all_vendors) ==
    LET n == Len(all_vendors)
        rating == vendor.rating
        base_price == vendor.base_price_per_kw_inr
        years_exp == vendor.years_experience
        num_locations == Len(vendor.locations)
        sum_rating == SumOf([i \in 1..n |-> all_vendors[i].rating])
        sum_price == SumOf(Prices(all_vendors))
        max_years == MaxOf([i \in 1..n |-> all_vendors[i].years_experience])
        max_locations == MaxOf([i \in 1..n |-> Len(all_vendors[i].locations)])
        r1 == IF rating >= 46 THEN <<"Top-rated service">>
              ELSE IF rating * n > sum_rating + 2 * n THEN <<"Above-average rating">>
              ELSE <<>>
        r2 == IF base_price * n * 10 <= sum_price * 9 THEN <<"Competitive pricing">>
              ELSE IF base_price * 10 <= MinOf(Prices(all_vendors)) * 11
                   THEN <<"Best value pricing">>
              ELSE <<>>
        r3 == IF years_exp * 10 >= max_years * 9 THEN <<"Highly experienced">>
              ELSE IF years_exp >= 10 THEN <<"Proven track record">>
              ELSE <<>>
        r4 == IF num_locations * 10 >= max_locations * 8 THEN <<"Wide service coverage">>
              ELSE <<>>
        r5 == IF InSeq(vendor.highlights, "MNRE empanelled") THEN <<"MNRE certified">>
              ELSE <<>>
        r6 == IF Contains(Join(HighlightChars(vendor)), W_OandM)
              THEN <<"Maintenance included">> ELSE <<>>
        reasons == r1 \o r2 \o r3 \o r4 \o r5 \o r6
    IN SubSeq(reasons, 1, Min2(3, Len(reasons)))

\* a sort that puts an element before the elements of equal score
RECURSIVE InsertByScoreUnstable(_, _)
InsertByScoreUnstable(sorted, v) ==
    IF Len(sorted) = 0 THEN <<v>>
    ELSE IF sorted[1].recommendation_score > v.recommendation_score
         THEN <<sorted[1]>> \o InsertByScoreUnstable(Tail(sorted), v)
         ELSE <<v>> \o sorted

\* list.sort(key=recommendation_score, reverse=True): stable, highest first
RECURSIVE InsertByScore(_, _)
InsertByScore(sorted, v) ==
    IF Len(sorted) = 0 THEN <<v>>
    ELSE IF sorted[1].recommendation_score >= v.recommendation_score
         THEN <<sorted[1]>> \o InsertByScore(Tail(sorted), v)
         ELSE <<v>> \o sorted

RECURSIVE SortByScore(_)
SortByScore(list) ==
    IF Len(list) = 0 THEN <<>>
    ELSE InsertByScore(SortByScore(SubSeq(list, 1, Len(list) - 1)), list[Len(list)])

\* filtered_matches.sort(key=lambda x: x.match_score, reverse=True) of Results:
\* the same stable sort on the key match_score
RECURSIVE InsertByMatchScore(_, _)
InsertByMatchScore(sorted, scheme) ==
    IF Len(sorted) = 0 THEN <<scheme>>
    ELSE IF sorted[1].match_score >= scheme.match_score
         THEN <<sorted[1]>> \o InsertByMatchScore(Tail(sorted), scheme)
         ELSE <<scheme>> \o sorted

RECURSIVE SortByMatchScore(_)
SortByMatchScore(list) ==
    IF Len(list) = 0 THEN <<>>
    ELSE InsertByMatchScore(SortByMatchScore(SubSeq(list, 1, Len(list) - 1)), list[Len(list)])

\* a flag with the threshold at 80% of the top score
IsRecommendedAt80(score, top_score) == score * 100 >= top_score * 80

\* vendor["recommendation_score"] >= top_score * 0.85, scores in tenths
IsRecommended(score, top_score) == score * 100 >= top_score * 85

\* the copies with their scores and reasons, in the order of solar_vendors (of
\* each copy the id and the added fields are kept)
VendorsWithScores ==
    [i \in 1..Len(solar_vendors) |->
        [id |-> solar_vendors[i].id,
         recommendation_score |-> calculate_vendor_score(solar_vendors[i]),
         recommendation_reasons |->
             get_vendor_recommendation_reasons(solar_vendors[i], solar_vendors)]]

\* vendors_with_scores after the sort
SortedVendors == SortByScore(VendorsWithScores)

\* top_score
TopScore == IF Len(SortedVendors) > 0 THEN SortedVendors[1].recommendation_score ELSE 0

\* the list get_recommended_vendors returns: sorted and flagged
RecommendedVendors ==
    [i \in 1..Len(SortedVendors) |->
        [id |-> SortedVendors[i].id,
         recommendation_score |-> SortedVendors[i].recommendation_score,
         recommendation_reasons |-> SortedVendors[i].recommendation_reasons,
         is_recommended |-> IsRecommended(SortedVendors[i].recommendation_score, TopScore)]]

\* get_recommended_vendors(recommended_kw): the argument is never read
get_recommended_vendors(recommended_kw) == RecommendedVendors

\* a loop that writes the scores into the vendor itself
StoredVendorAliased(vendor, vendor_copy) == vendor_copy

\* the element of the module-level list after one pass of the loop:
\* vendor_copy = vendor.copy() is a new dict, and the score, the reasons and
\* the flag are assigned to it, never to vendor
StoredVendor(vendor, vendor_copy) == vendor

\* the module-level list after a call of get_recommended_vendors: the sort is
\* applied to the new list vendors_with_scores, so the order stays
StoreAfterCall(store) ==
    [i \in 1..Len(store) |->
        StoredVendor(store[i],
            DictUpdate(store[i],
                [recommendation_score |-> calculate_vendor_score(store[i]),
                 recommendation_reasons |->
                     get_vendor_recommendation_reasons(store[i], store),
                 is_recommended |->
                     IsRecommended(calculate_vendor_score(store[i]), TopScore)]))]

----------------------------------------------------------------------------
(* subsidy blueprint: the installer marketplace *)

\* the vendors the page lists as recommended, and the others
TopRecommended(recommended_vendors) == SelectSeq(recommended_vendors, LAMBDA v : v.is_recommended)
OtherVendors(recommended_vendors) == SelectSeq(recommended_vendors, LAMBDA v : ~v.is_recommended)

\* GET /subsidy/vendors (get_recommended_vendors never reads recommended_kw)
vendors ==
    /\ UNCHANGED <<call, projects, uploads, energy_logs>>
    /\ UNCHANGED <<users, current_user, submissions, config, step1_ok, step2_ok,
                   journey_subs>>
    /\ IF ~is_authenticated
       THEN /\ response' = LoginRequired("vendors")
            /\ UNCHANGED <<session, vendor_store>>
       ELSE LET sizing == VendorsSizing(JourneyOf(_ensure_session(session)))
                recommended_kw == IF sizing = None THEN None
                                  ELSE Some(sizing[1].recommended_kw)
                recommended_vendors == get_recommended_vendors(recommended_kw) IN
            /\ session' = _ensure_session(session)
            /\ vendor_store' = StoreAfterCall(vendor_store)
            /\ response' = Render("vendors", "subsidy/vendors.html",
                                  [sizing |-> sizing,
                                   recommended_kw |-> recommended_kw,
                                   returned |-> recommended_vendors,
                                   recommended_vendors |-> TopRecommended(recommended_vendors),
                                   other_vendors |-> OtherVendors(recommended_vendors)])

----------------------------------------------------------------------------
(* app/utils/ml_scoring.py: subsidy match score *)

\* str.lower() of the state and segment names the calls use
LowerName(name) ==
    CASE name = "Delhi" -> "delhi"
      [] name = "Gujarat" -> "gujarat"
      [] name = "Residential" -> "residential"
      [] OTHER -> name

LowerNames(names) == {LowerName(n) : n \in names}

\* Feature 1: subsidy benefit ratio, in thousandths of a point;
\* min(subsidy / gross, 1.0) * 30 = min(30 * subsidy / gross, 30)
BenefitScore(gross_cost_inr, subsidy_amount_inr) ==
    IF gross_cost_inr > 0
    THEN Min2(DivRound(subsidy_amount_inr * 30 * SCALE, gross_cost_inr), 30 * SCALE)
    ELSE 0

\* Feature 2: state match bonus
StateMatchScore(scheme, user_state) ==
    IF scheme.coverage = "state" /\ LowerName(user_state) \in LowerNames(scheme.states)
    THEN 15 * SCALE
    ELSE IF scheme.coverage = "national" THEN 10 * SCALE
    ELSE 0

\* Feature 3: consumer segment match
SegmentMatchScore(scheme, user_consumer_segment) ==
    IF LowerName(user_consumer_segment) \in LowerNames(scheme.consumer_segments)
    THEN 10 * SCALE ELSE 0

\* Feature 4: system size compatibility (size in thousandths of a kW);
\* 20 * (1 - |kw - 5| / 5) = 20 - 4 * |kw - 5|
SizeScore(user_system_size_kw) ==
    IF 1 * SCALE <= user_system_size_kw /\ user_system_size_kw <= 10 * SCALE
    THEN Max2(0, 20 * SCALE - 4 * Abs(user_system_size_kw - 5 * SCALE))
    ELSE 10 * SCALE

\* Feature 5: ease of claim (in thousandths)
EaseScore(ease_of_claim) == ease_of_claim * 10

\* Feature 6: payback period.  annual_savings = kwh * 0.8 * 6.0, so
\* payback_years = net_cost / (4.8 * kwh) = 10 * net_cost / (48 * kwh), and
\* 15 * (1 - (payback_years - 5) / 15) = 20 - payback_years.  The costs of
\* this function are in thousands of rupees.
PaybackScore(gross_cost_inr, subsidy_amount_inr, user_annual_consumption_kwh) ==
    IF gross_cost_inr > 0 /\ Truthy(user_annual_consumption_kwh)
    THEN LET kwh == user_annual_consumption_kwh[1]
             net_cost == gross_cost_inr - subsidy_amount_inr
         IN IF kwh > 0
            THEN LET payback_years == DivRound(net_cost * 1000 * 10 * SCALE, 48 * kwh)
                 IN Max2(0, 20 * SCALE - payback_years)
            ELSE 0
    ELSE 0

\* base_score = scheme.get('match_score', 7.5) * 10, computed and not used; the
\* match_score is in tenths, the result in thousandths of a point
BaseScore(scheme) == scheme.match_score * SCALE

\* a score that starts from the base score
MatchRawScoreWithBase(scheme, user_system_size_kw, user_annual_consumption_kwh, user_state, user_consumer_segment, gross_cost_inr, subsidy_amount_inr, ease_of_claim) ==
    BaseScore(scheme)
    + BenefitScore(gross_cost_inr, subsidy_amount_inr)
    + StateMatchScore(scheme, user_state)
    + SegmentMatchScore(scheme, user_consumer_segment)
    + SizeScore(user_system_size_kw)
    + EaseScore(ease_of_claim)
    + PaybackScore(gross_cost_inr, subsidy_amount_inr, user_annual_consumption_kwh)

\* score before the normalisation, in thousandths of a point
MatchRawScore(scheme, user_system_size_kw, user_annual_consumption_kwh, user_state, user_consumer_segment, gross_cost_inr, subsidy_amount_inr, ease_of_claim) ==
    BenefitScore(gross_cost_inr, subsidy_amount_inr)
    + StateMatchScore(scheme, user_state)
    + SegmentMatchScore(scheme, user_consumer_segment)
    + SizeScore(user_system_size_kw)
    + EaseScore(ease_of_claim)
    + PaybackScore(gross_cost_inr, subsidy_amount_inr, user_annual_consumption_kwh)

\* a normalisation without the upper limit
NormalizeScoreNoCeiling(score) == Max2(0, score)

\* final_score = min(100, max(0, score))
NormalizeScore(score) == Min2(100 * SCALE, Max2(0, score))

\* calculate_subsidy_match_score(...), in tenths of a point
calculate_subsidy_match_score(scheme, user_system_size_kw, user_annual_consumption_kwh, user_state, user_consumer_segment, gross_cost_inr, subsidy_amount_inr, ease_of_claim) ==
    Round1(NormalizeScore(MatchRawScore(scheme, user_system_size_kw,
        user_annual_consumption_kwh, user_state, user_consumer_segment,
        gross_cost_inr, subsidy_amount_inr, ease_of_claim)))

\* match.match_score = ml_score / 10.0 in Results: the score of the match after
\* the rescoring, in hundredths of the 0-10 scale
RescoredMatchScore(match_score, ml_score) == ml_score

----------------------------------------------------------------------------
(* app/utils/ml_scoring.py: financial predictions *)

\* annual_generation_kwh * self_consumption_ratio * tariff_rate_inr_per_kwh,
\* exactly, in units of 1/10000 rupee: the generation is in hundredths of a
\* kWh, the ratio and the tariff in tenths
AnnualSavingsExact(annual_generation_kwh, tariff_rate_inr_per_kwh, self_consumption_ratio) ==
    annual_generation_kwh * self_consumption_ratio * tariff_rate_inr_per_kwh

\* a payback decided on the rounded savings that are returned
PaybackPeriodYearsOnRounded(net_cost_inr, annual_savings) ==
    IF RoundHalfEven(annual_savings, 100) > 0
    THEN Some(RoundHalfEven(net_cost_inr * 1000000, annual_savings))
    ELSE None

\* payback_period_years as returned: None for float('inf'), else
\* round(net_cost_inr / annual_savings_inr, 2) in hundredths of a year
PaybackPeriodYears(net_cost_inr, annual_savings) ==
    IF annual_savings > 0
    THEN Some(RoundHalfEven(net_cost_inr * 1000000, annual_savings))
    ELSE None

\* calculate_financial_predictions(...): money, kWh and kg in hundredths
calculate_financial_predictions(system_size_kw, annual_generation_kwh, tariff_rate_inr_per_kwh, gross_cost_inr, subsidy_amount_inr, self_consumption_ratio) ==
    LET net_cost_inr == gross_cost_inr - subsidy_amount_inr
        annual_savings == AnnualSavingsExact(annual_generation_kwh,
                              tariff_rate_inr_per_kwh, self_consumption_ratio)
    IN [monthly_savings_inr |-> RoundHalfEven(annual_savings, 1200),
        annual_savings_inr |-> RoundHalfEven(annual_savings, 100),
        payback_period_years |-> PaybackPeriodYears(net_cost_inr, annual_savings),
        co2_avoided_kg_per_year |-> RoundHalfEven(annual_generation_kwh * 82, 100),
        net_cost_inr |-> net_cost_inr * 100,
        self_consumed_kwh |-> RoundHalfEven(annual_generation_kwh * self_consumption_ratio, 10)]

----------------------------------------------------------------------------
(* projects blueprint *)

\* the ids the database gives to Project rows, and the ids a URL can name
ProjectIds == 1..MaxProjects
ProjectIdArgs == 1..(MaxProjects + 1)

\* abort(status) and first_or_404()
Abort(handler, status) == Response(handler, "abort", "none", "none", status, NoBody)

\* a hook that lets every request through
RequireJourneyOff(handler) == None

\* require_journey, the before_request hook of the blueprint: the response that
\* ends the request before the view runs, or None (an anonymous client is
\* passed on to @login_required)
RequireJourney(handler) ==
    IF ~is_authenticated THEN None
    ELSE IF ~users[current_user].journey_completed
    THEN Some(Redirect(handler, "subsidy.eligibility", "none"))
    ELSE None

\* a query that leaves out the owner
ProjectQueryAnyOwner(rows, project_id, user_id) == {p \in rows : p.id = project_id}

\* Project.query.filter_by(id=project_id, user_id=current_user.id)
ProjectQuery(rows, project_id, user_id) ==
    {p \in rows : p.id = project_id /\ p.user_id = user_id}

\* build_projects_context(user_id)["has_real_projects"]
has_real_projects(rows, user_id) == \E p \in rows : p.user_id = user_id

\* build_projects_context(user_id)["projects"]: the rows the page shows (the
\* samples shown to a user without projects are no rows)
ProjectsOf(rows, user_id) == {p \in rows : p.user_id = user_id}

\* GET /projects/
list_projects ==
    /\ UNCHANGED <<users, current_user, session, submissions, config, step1_ok, step2_ok,
                   journey_subs, call, projects, uploads, energy_logs, vendor_store>>
    /\ response' =
           IF RequireJourney("list_projects") # None THEN RequireJourney("list_projects")[1]
           ELSE IF ~is_authenticated THEN LoginRequired("list_projects")
           ELSE Render("list_projects", "projects/index.html",
                       [simulated_data |-> ~has_real_projects(projects, current_user),
                        projects |-> {p.id : p \in ProjectsOf(projects, current_user)}])

\* GET/POST /projects/new: form_valid says whether ProjectForm validates,
\* image whether _save_image stores a file (named by a fresh uuid, here by the
\* id of the row)
add_project(method, form_valid, image) ==
    /\ UNCHANGED <<users, current_user, session, submissions, config, step1_ok, step2_ok,
                   journey_subs, call, energy_logs, vendor_store>>
    /\ IF RequireJourney("add_project") # None
       THEN /\ response' = RequireJourney("add_project")[1]
            /\ UNCHANGED <<projects, uploads>>
       ELSE IF ~is_authenticated
       THEN /\ response' = LoginRequired("add_project")
            /\ UNCHANGED <<projects, uploads>>
       ELSE IF method = "POST" /\ form_valid
       THEN \E id \in ProjectIds :
                /\ \A p \in projects : p.id # id
                /\ projects' = projects \cup {[id |-> id, user_id |-> current_user,
                                                image |-> image]}
                /\ uploads' = IF image THEN uploads \cup {id} ELSE uploads
                /\ response' = Redirect("add_project", "projects.list_projects", "success")
       ELSE /\ response' = Render("add_project", "projects/new.html", NoBody)
            /\ UNCHANGED <<projects, uploads>>

\* GET /projects/<int:project_id>
project_detail(project_id) ==
    /\ UNCHANGED <<users, current_user, session, submissions, config, step1_ok, step2_ok,
                   journey_subs, call, projects, uploads, energy_logs, vendor_store>>
    /\ response' =
           IF RequireJourney("project_detail") # None THEN RequireJourney("project_detail")[1]
           ELSE IF ~is_authenticated THEN LoginRequired("project_detail")
           ELSE IF /\ has_real_projects(projects, current_user)
                   /\ ProjectQuery(projects, project_id, current_user) # {}
           THEN Render("project_detail", "projects/detail.html", [project_id |-> project_id])
           ELSE Abort("project_detail", 404)

\* POST /projects/<int:project_id>/delete
delete_project(project_id) ==
    /\ UNCHANGED <<users, current_user, session, submissions, config, step1_ok, step2_ok,
                   journey_subs, call, energy_logs, vendor_store>>
    /\ IF RequireJourney("delete_project") # None
       THEN /\ response' = RequireJourney("delete_project")[1]
            /\ UNCHANGED <<projects, uploads>>
       ELSE IF ~is_authenticated
       THEN /\ response' = LoginRequired("delete_project")
            /\ UNCHANGED <<projects, uploads>>
       ELSE LET found == ProjectQuery(projects, project_id, current_user) IN
            IF found = {}
            THEN /\ response' = Redirect("delete_project", "projects.list_projects", "error")
                 /\ UNCHANGED <<projects, uploads>>
            ELSE LET project == CHOOSE p \in found : TRUE IN
                 /\ projects' = projects \ {project}
                 /\ uploads' = IF project.image THEN uploads \ {project.id} ELSE uploads
                 /\ response' = Redirect("delete_project", "projects.list_projects", "success")

----------------------------------------------------------------------------
(* The tracker blueprint *)

\* choices of TrackerEntryForm.entry_type
ENTRY_TYPE_CHOICES == {"generation", "consumption", "export", "other"}

\* TrackerEntryForm submissions, fields as DecimalField parses them (None: left
\* blank or not a number), kwh in thousandths of a kWh and revenue in
\* thousandths of a rupee; the date is a day number
TrackerEntryForm ==
    [entry_type : {"generation", ""},
     kwh : {None, Some(0), Some(-5000), Some(12000)},
     revenue : {None, Some(-3000), Some(40000)},
     date : {1}]

\* DataRequired(): the field's data is truthy
DataRequired(data) == Truthy(data)

\* TrackerEntryForm.validate(): entry_type is one of the choices, kwh passes
\* DataRequired; revenue carries Optional() only and the entry date, which
\* add_entry defaults to today, always passes
TrackerEntryFormValid(form) ==
    /\ form.entry_type \in ENTRY_TYPE_CHOICES
    /\ DataRequired(form.kwh)

\* EnergyLog(user_id=current_user.id, entry_type=..., kwh=..., revenue=...,
\* date=...)
EnergyLog(user_id, form) ==
    [user_id |-> user_id, date |-> form.date, entry_type |-> form.entry_type,
     kwh |-> form.kwh[1], revenue |-> form.revenue]

\* build_energy_context(user_id)["has_real_logs"]
has_real_logs(logs, user_id) == \E i \in DOMAIN logs : logs[i].user_id = user_id

\* GET /tracker/
index ==
    /\ UNCHANGED <<users, current_user, session, submissions, config, step1_ok, step2_ok,
                   journey_subs, call, projects, uploads, energy_logs, vendor_store>>
    /\ response' =
           IF RequireJourney("index") # None THEN RequireJourney("index")[1]
           ELSE IF ~is_authenticated THEN LoginRequired("index")
           ELSE Render("index", "tracker/index.html",
                       [simulated_data |-> ~has_real_logs(energy_logs, current_user)])

\* GET/POST /tracker/add
add_entry(method, form) ==
    /\ UNCHANGED <<users, current_user, session, submissions, config, step1_ok, step2_ok,
                   journey_subs, call, projects, uploads, vendor_store>>
    /\ IF RequireJourney("add_entry") # None
       THEN /\ response' = RequireJourney("add_entry")[1]
            /\ UNCHANGED energy_logs
       ELSE IF ~is_authenticated
       THEN /\ response' = LoginRequired("add_entry")
            /\ UNCHANGED energy_logs
       ELSE IF method = "POST" /\ TrackerEntryFormValid(form)
       THEN /\ Len(energy_logs) < MaxLogs
            /\ energy_logs' = Append(energy_logs, EnergyLog(current_user, form))
            /\ response' = Redirect("add_entry", "tracker.index", "success")
       ELSE /\ response' = Render("add_entry", "tracker/add.html", NoBody)
            /\ UNCHANGED energy_logs

----------------------------------------------------------------------------
(* app/utils/energy.py *)

\* the days the logs are dated on
Days == {1, 2}

\* a branch that leaves the entries of type "other" out of every total
EnergyBucketNoOther(entry_type) ==
    IF entry_type \in {"generation", "export", "consumption"} THEN entry_type ELSE "other"

\* the daily total a log is added to: generation, export, and consumption for
\* every other entry type
EnergyBucket(entry_type) ==
    IF entry_type = "generation" THEN "generation"
    ELSE IF entry_type = "export" THEN "export"
    ELSE "consumption"

\* EnergyLog.query.filter_by(user_id=user_id).all()
EnergyLogsOf(rows, user_id) == SelectSeq(rows, LAMBDA log : log.user_id = user_id)

\* daily_totals[date_key][bucket] after the loop over the logs, in thousandths
\* of a kWh
DayTotal(logs, day, bucket) ==
    SumOf([i \in 1..Len(logs) |->
              IF logs[i].date = day /\ EnergyBucket(logs[i].entry_type) = bucket
              THEN logs[i].kwh ELSE 0])

\* daily_totals[date_key]["revenue"], in thousandths of a rupee
DayRevenue(logs, day) ==
    SumOf([i \in 1..Len(logs) |->
              IF logs[i].date = day /\ logs[i].revenue # None
              THEN logs[i].revenue[1] ELSE 0])

\* round(x, 2) of a value in thousandths, in hundredths
Round2(x) == RoundHalfEven(x, 10)

\* round(sum(item[bucket] for item in daily_series), 2), every item of the
\* series rounded to two places before, in hundredths of a kWh
EnergyTotal(logs, bucket) ==
    SumOf([day \in 1..Cardinality(Days) |-> Round2(DayTotal(logs, day, bucket))])

RevenueTotal(logs) ==
    SumOf([day \in 1..Cardinality(Days) |-> Round2(DayRevenue(logs, day))])

\* the sample records and totals random.uniform yields for a user without logs
\* (thirty days of 18 to 34 kWh), two of the possible draws
SampleContexts ==
    {[logs |-> <<[user_id |-> "sample", date |-> 1, entry_type |-> "generation",
                  kwh |-> 18000, revenue |-> Some(34650)]>>,
      totals |-> [generation |-> 54000, export |-> 18900, revenue |-> 103950,
                  consumption |-> 35100]],
     [logs |-> <<[user_id |-> "sample", date |-> 1, entry_type |-> "generation",
                  kwh |-> 34000, revenue |-> Some(146880)]>>,
      totals |-> [generation |-> 102000, export |-> 61200, revenue |-> 440640,
                  consumption |-> 40800]]}

\* build_energy_context(user_id) on the rows of the EnergyLog table; sample is
\* the draw of the sample data
build_energy_context(rows, user_id, sample) ==
    LET logs == EnergyLogsOf(rows, user_id)
        real == has_real_logs(rows, user_id)
    IN [logs |-> IF real THEN logs ELSE sample.logs,
        has_real_logs |-> real,
        totals |-> IF real
                   THEN [generation |-> EnergyTotal(logs, "generation"),
                         export |-> EnergyTotal(logs, "export"),
                         revenue |-> RevenueTotal(logs),
                         consumption |-> EnergyTotal(logs, "consumption")]
                   ELSE sample.totals]

----------------------------------------------------------------------------
(* main blueprint and the locale selector *)

\* the keys of app.config['LANGUAGES']
LANGUAGES == {"en", "hi", "mr", "ta", "te", "bn", "gu"}

BABEL_DEFAULT_LOCALE == "en"

\* a handler that stores whatever code the URL carries
SetLanguageSessionAny(sess, lang_code) ==
    DictUpdate(sess, [language |-> lang_code, _permanent |-> TRUE])

\* the session after set_language: session['language'] = lang_code and
\* session.permanent = True for a configured language, else no change
SetLanguageSession(sess, lang_code) ==
    IF lang_code \in LANGUAGES
    THEN DictUpdate(sess, [language |-> lang_code, _permanent |-> TRUE])
    ELSE sess

\* GET /set_language/<lang_code>; referrer is the Referer header, None if absent
set_language(lang_code, referrer) ==
    /\ UNCHANGED <<users, current_user, submissions, config, step1_ok, step2_ok,
                   journey_subs, call, projects, uploads, energy_logs, vendor_store>>
    /\ session' = SetLanguageSession(session, lang_code)
    /\ response' = Redirect("set_language",
                            IF referrer = None THEN "main.home" ELSE referrer[1],
                            IF lang_code \in LANGUAGES THEN "success" ELSE "error")

\* the primary tag of a language tag of the Accept-Language headers used here
PrimaryTag(tag) == IF tag = "en-GB" THEN "en" ELSE tag

\* request.accept_languages.best_match(LANGUAGES.keys()); accept_languages is
\* the header in the order of preference: the first tag that is a key, else the
\* first tag whose primary tag is a key, else None
best_match(accept_languages, matches) ==
    LET exact == {i \in 1..Len(accept_languages) : accept_languages[i] \in matches}
        primary == {i \in 1..Len(accept_languages) :
                       PrimaryTag(accept_languages[i]) \in matches}
        First(indices) == CHOOSE i \in indices : \A j \in indices : i <= j
    IN IF exact # {} THEN Some(accept_languages[First(exact)])
       ELSE IF primary # {} THEN Some(PrimaryTag(accept_languages[First(primary)]))
       ELSE None

\* get_locale() within a request
get_locale(sess, accept_languages) ==
    IF "language" \in DOMAIN sess /\ sess["language"] \in LANGUAGES
    THEN sess["language"]
    ELSE LET match == best_match(accept_languages, LANGUAGES)
         IN IF match # None THEN match[1] ELSE BABEL_DEFAULT_LOCALE

----------------------------------------------------------------------------
(* dashboard blueprint *)

\* GET /dashboard/: the page is built from the user's projects, energy logs and
\* stored estimate
dashboard_index ==
    /\ UNCHANGED <<users, current_user, session, submissions, config, step1_ok, step2_ok,
                   journey_subs, call, projects, uploads, energy_logs, vendor_store>>
    /\ response' =
           IF RequireJourney("dashboard_index") # None
           THEN RequireJourney("dashboard_index")[1]
           ELSE IF ~is_authenticated THEN LoginRequired("dashboard_index")
           ELSE Render("dashboard_index", "dashboard/index.html",
                       [projects_simulated |-> ~has_real_projects(projects, current_user),
                        energy_simulated |-> ~has_real_logs(energy_logs, current_user),
                        estimate_stats |-> users[current_user].last_system_kw # None])

----------------------------------------------------------------------------
(* profile blueprint *)

\* GET /profile/: the page lists the user's submissions
view_profile ==
    /\ UNCHANGED <<users, current_user, session, submissions, config, step1_ok, step2_ok,
                   journey_subs, call, projects, uploads, energy_logs, vendor_store>>
    /\ response' =
           IF RequireJourney("view_profile") # None THEN RequireJourney("view_profile")[1]
           ELSE IF ~is_authenticated THEN LoginRequired("view_profile")
           ELSE Render("view_profile", "profile/view.html",
                       [subsidy_submissions |->
                            Cardinality({i \in DOMAIN submissions :
                                            submissions[i].user_id = current_user})])

\* the outcomes of db.session.commit() in edit_profile: the row is stored; where
\* the users table declares the address unique, the commit of an address that
\* another row holds raises instead and the request fails with nothing stored
ProfileCommits(rows, user_id, email) ==
    IF \E u \in DOMAIN rows : u # user_id /\ rows[u].email = email
    THEN {"stored", "raised"}
    ELSE {"stored"}

\* GET/POST /profile/edit/; form_valid: ProfileForm.validate() passes (the name,
\* the phone number and the date of birth are columns that no handler reads)
edit_profile(method, form_valid, email) ==
    /\ UNCHANGED <<current_user, session, submissions, config, step1_ok, step2_ok,
                   journey_subs, call, projects, uploads, energy_logs, vendor_store>>
    /\ IF RequireJourney("edit_profile") # None
       THEN /\ response' = RequireJourney("edit_profile")[1]
            /\ UNCHANGED users
       ELSE IF ~is_authenticated
       THEN /\ response' = LoginRequired("edit_profile")
            /\ UNCHANGED users
       ELSE IF method = "POST" /\ form_valid
       THEN \E outcome \in ProfileCommits(users, current_user, NormalizeEmail(email)) :
                IF outcome = "stored"
                THEN /\ users' = [users EXCEPT
                                      ![current_user].email = NormalizeEmail(email)]
                     /\ response' = Redirect("edit_profile", "profile.view_profile",
                                             "success")
                ELSE /\ UNCHANGED users
                     /\ response' = Abort("edit_profile", 500)
       ELSE /\ response' = Render("edit_profile", "profile/edit.html", NoBody)
            /\ UNCHANGED users

----------------------------------------------------------------------------
(* The application *)

NoCall == [fn |-> "none"]

Configs == [GEMINI_API_KEY : BOOLEAN, genai_importable : BOOLEAN]

\* an empty database, an anonymous client with an empty session
InitApp ==
    /\ users = <<>>
    /\ current_user = Anonymous
    /\ session = <<>>
    /\ submissions = <<>>
    /\ response = Response("none", "none", "none", "none", 0, NoBody)
    /\ step1_ok = FALSE
    /\ step2_ok = FALSE
    /\ journey_subs = 0
    /\ projects = {}
    /\ uploads = {}
    /\ energy_logs = <<>>
    /\ vendor_store = solar_vendors

Init ==
    /\ InitApp
    /\ config \in Configs
    /\ call = NoCall

Next ==
    \/ \E email \in Emails : register(email)
    \/ \E email \in Emails, password_ok \in BOOLEAN : login(email, password_ok)
    \/ logout
    \/ \E method \in Methods, form \in SubsidyNumbersForm : eligibility(method, form)
    \/ \E method \in Methods, form \in SubsidySiteForm : site(method, form)
    \/ \E coverage_filter \in CoverageArgs : results(coverage_filter)
    \/ vendors
    \/ restart
    \/ view_data
    \/ \E body \in ChatBodies, upstream \in UpstreamOutcomes : ai_chat(body, upstream)

Spec == Init /\ [][Next]_vars

----------------------------------------------------------------------------
(* The journey and the projects of a signed-in user *)

InitProjects ==
    /\ InitApp
    /\ config = [GEMINI_API_KEY |-> TRUE, genai_importable |-> TRUE]
    /\ call = NoCall

NextProjects ==
    \/ \E email \in Emails : register(email)
    \/ \E email \in Emails : login(email, TRUE)
    \/ logout
    \/ \E form \in {f \in SubsidyNumbersForm : NumbersFormValid(f)} :
           eligibility("POST", form)
    \/ \E form \in {f \in SubsidySiteForm : SiteFormValid(f)} : site("POST", form)
    \/ results("all")
    \/ restart
    \/ list_projects
    \/ \E form_valid \in BOOLEAN, image \in BOOLEAN : add_project("POST", form_valid, image)
    \/ \E project_id \in ProjectIdArgs : project_detail(project_id)
    \/ \E project_id \in ProjectIdArgs : delete_project(project_id)

SpecProjects == InitProjects /\ [][NextProjects]_vars

----------------------------------------------------------------------------
(* The journey and the energy tracker of a signed-in user *)

NextTracker ==
    \/ \E email \in Emails : register(email)
    \/ \E email \in Emails : login(email, TRUE)
    \/ logout
    \/ \E form \in SubsidyNumbersForm : eligibility("POST", form)
    \/ \E form \in SubsidySiteForm : site("POST", form)
    \/ results("all")
    \/ restart
    \/ index
    \/ \E method \in Methods, form \in TrackerEntryForm : add_entry(method, form)

SpecTracker == InitProjects /\ [][NextTracker]_vars

----------------------------------------------------------------------------
(* The pages behind the journey gate: dashboard, projects, tracker, profile *)

\* the handlers of the four blueprints that carry the require_journey hook
GatedHandlers ==
    {"dashboard_index", "list_projects", "add_project", "project_detail",
     "delete_project", "index", "add_entry", "view_profile", "edit_profile"}

\* one tracker entry that validates and one that does not
GatedEntryForms ==
    {[entry_type |-> "generation", kwh |-> Some(12000), revenue |-> None, date |-> 1],
     [entry_type |-> "generation", kwh |-> None, revenue |-> None, date |-> 1]}

NextGated ==
    \/ register("asha@solaris.in")
    \/ login("asha@solaris.in", TRUE)
    \/ logout
    \/ \E form \in {f \in SubsidyNumbersForm : NumbersFormValid(f)} :
           eligibility("POST", form)
    \/ \E form \in {f \in SubsidySiteForm : SiteFormValid(f)} : site("POST", form)
    \/ results("all")
    \/ restart
    \/ vendors
    \/ view_data
    \/ \E body \in ChatBodies : ai_chat(body, "ok")
    \/ dashboard_index
    \/ list_projects
    \/ \E form_valid \in BOOLEAN : add_project("POST", form_valid, TRUE)
    \/ \E project_id \in ProjectIdArgs : project_detail(project_id)
    \/ \E project_id \in ProjectIdArgs : delete_project(project_id)
    \/ index
    \/ \E form \in GatedEntryForms : add_entry("POST", form)
    \/ view_profile
    \/ \E form_valid \in BOOLEAN, email \in Emails : edit_profile("POST", form_valid, email)

SpecGated == InitProjects /\ [][NextGated]_vars

----------------------------------------------------------------------------
(* Accounts and profiles: register, sign in, complete the journey, edit the profile *)

NextProfile ==
    \/ \E email \in EmailArgs : register(email)
    \/ \E email \in EmailArgs : login(email, TRUE)
    \/ logout
    \/ \E form \in {f \in SubsidyNumbersForm : NumbersFormValid(f)} :
           eligibility("POST", form)
    \/ \E form \in {f \in SubsidySiteForm : SiteFormValid(f)} : site("POST", form)
    \/ results("all")
    \/ view_profile
    \/ \E method \in Methods, form_valid \in BOOLEAN, email \in EmailArgs :
           edit_profile(method, form_valid, email)

SpecProfile == InitProjects /\ [][NextProfile]_vars

----------------------------------------------------------------------------
(* The language of the session: the journey of one user and the language switch *)

\* the codes the URL carries: configured ones, an unknown one, one in capitals
LangCodes == {"hi", "ta", "fr", "EN"}

Referrers == {None, Some("subsidy.results")}

AcceptLanguages == {<<>>, <<"fr">>, <<"fr", "ta">>, <<"en-GB">>, <<"de", "hi", "en">>}

\* a page is rendered: the locale selector runs on the session and the header
\* of the request
ApplyGetLocale(accept_languages) ==
    /\ call' = [fn |-> "get_locale", args |-> [accept_languages |-> accept_languages],
                done |-> TRUE, result |-> Some(get_locale(session, accept_languages))]
    /\ UNCHANGED <<users, current_user, session, submissions, config, response,
                   step1_ok, step2_ok, journey_subs,
                   projects, uploads, energy_logs, vendor_store>>

NextLanguage ==
    \/ register("asha@solaris.in")
    \/ login("asha@solaris.in", TRUE)
    \/ logout
    \/ \E form \in {f \in SubsidyNumbersForm : NumbersFormValid(f)} :
           eligibility("POST", form)
    \/ \E form \in {f \in SubsidySiteForm : SiteFormValid(f)} : site("POST", form)
    \/ results("all")
    \/ vendors
    \/ view_data
    \/ restart
    \/ \E lang_code \in LangCodes, referrer \in Referrers : set_language(lang_code, referrer)
    \/ \E accept_languages \in AcceptLanguages : ApplyGetLocale(accept_languages)

SpecLanguage == InitProjects /\ [][NextLanguage]_vars

----------------------------------------------------------------------------
(* The scoring functions, called on their own *)

DefaultConfig == [GEMINI_API_KEY |-> TRUE, genai_importable |-> TRUE]

Call(fn, args) == [fn |-> fn, args |-> args, done |-> FALSE, result |-> None]

Returned(fn) == call.fn = fn /\ call.done

\* scheme dicts as Results builds them from the matches; sizes in thousandths
\* of a kW, consumption in kWh, costs in thousands of rupees, ease in thousandths
Schemes ==
    {[match_score |-> 75, coverage |-> "national", states |-> {},
      consumer_segments |-> {"residential"}],
     [match_score |-> 90, coverage |-> "state", states |-> {"Delhi"},
      consumer_segments |-> {"residential", "agricultural"}],
     [match_score |-> 60, coverage |-> "csr", states |-> {},
      consumer_segments |-> {"community"}]}

MatchArgs ==
    [scheme : Schemes,
     user_system_size_kw : {0, 1000, 5000, 12000},
     user_annual_consumption_kwh : {None, Some(0), Some(1200), Some(6000)},
     user_state : {"Delhi", ""},
     user_consumer_segment : {"residential", "community"},
     gross_cost_inr : {0, 60, 180},
     subsidy_amount_inr : {0, 78, 180, 200},
     ease_of_claim : {-2000, 500, 700, 1000}]

InitMatch ==
    /\ InitApp
    /\ config = DefaultConfig
    /\ call \in {Call("calculate_subsidy_match_score", a) : a \in MatchArgs}

ApplyMatchScore ==
    /\ call.fn = "calculate_subsidy_match_score"
    /\ ~call.done
    /\ call' = [call EXCEPT !.done = TRUE,
                   !.result = Some(calculate_subsidy_match_score(
                       call.args.scheme, call.args.user_system_size_kw,
                       call.args.user_annual_consumption_kwh, call.args.user_state,
                       call.args.user_consumer_segment, call.args.gross_cost_inr,
                       call.args.subsidy_amount_inr, call.args.ease_of_claim))]
    /\ UNCHANGED <<users, current_user, session, submissions, config, response,
                   step1_ok, step2_ok, journey_subs,
                   projects, uploads, energy_logs, vendor_store>>

NextMatch == ApplyMatchScore

SpecMatch == InitMatch /\ [][NextMatch]_vars

\* forms that validate: every entry type, 0.004 and 1.25 kWh
EnergyEntryForms ==
    [entry_type : ENTRY_TYPE_CHOICES, kwh : {Some(4), Some(1250)},
     revenue : {None, Some(2500)}, date : Days]

\* the rows of the EnergyLog table: add_entry stores the type, the date and the
\* decimals of the form as they were sent
EnergyRows == {EnergyLog(user_id, form) : user_id \in UserIds, form \in EnergyEntryForms}

EnergyTables == UNION {[1..n -> EnergyRows] : n \in 0..MaxRows}

InitEnergy ==
    /\ InitApp
    /\ config = DefaultConfig
    /\ call \in {Call("build_energy_context", [rows |-> rows, user_id |-> user_id]) :
                     rows \in EnergyTables, user_id \in UserIds}

ApplyEnergyContext ==
    /\ call.fn = "build_energy_context"
    /\ ~call.done
    /\ \E sample \in SampleContexts :
           call' = [call EXCEPT !.done = TRUE,
                       !.result = Some(build_energy_context(call.args.rows,
                                                             call.args.user_id, sample))]
    /\ UNCHANGED <<users, current_user, session, submissions, config, response,
                   step1_ok, step2_ok, journey_subs,
                   projects, uploads, energy_logs, vendor_store>>

NextEnergy == ApplyEnergyContext

SpecEnergy == InitEnergy /\ [][NextEnergy]_vars

VendorScoreArgs ==
    [rating : {0, 2500, 5000},
     mnre_verified : BOOLEAN,
     sentiment_score : {-2000, 0, 500, 1000},
     price_fairness : {0, 400, 1000},
     completion_rate : {0, 1000},
     warranty_years : {0, 1000, 5000, 10000},
     years_experience : {0, 4, 12}]

InitVendorScore ==
    /\ InitApp
    /\ config = DefaultConfig
    /\ call \in {Call("ml_calculate_vendor_score", a) : a \in VendorScoreArgs}
                \cup {Call("calculate_vendor_score", [vendor |-> i]) : i \in 1..Len(solar_vendors)}

ApplyMlVendorScore ==
    /\ call.fn = "ml_calculate_vendor_score"
    /\ ~call.done
    /\ call' = [call EXCEPT !.done = TRUE,
                   !.result = Some(ml_calculate_vendor_score(
                       call.args.rating, call.args.mnre_verified,
                       call.args.sentiment_score, call.args.price_fairness,
                       call.args.completion_rate, call.args.warranty_years,
                       call.args.years_experience))]
    /\ UNCHANGED <<users, current_user, session, submissions, config, response,
                   step1_ok, step2_ok, journey_subs,
                   projects, uploads, energy_logs, vendor_store>>

ApplyVendorScore ==
    /\ call.fn = "calculate_vendor_score"
    /\ ~call.done
    /\ call' = [call EXCEPT !.done = TRUE,
                   !.result = Some(calculate_vendor_score(solar_vendors[call.args.vendor]))]
    /\ UNCHANGED <<users, current_user, session, submissions, config, response,
                   step1_ok, step2_ok, journey_subs,
                   projects, uploads, energy_logs, vendor_store>>

NextVendorScore == ApplyMlVendorScore \/ ApplyVendorScore

SpecVendorScore == InitVendorScore /\ [][NextVendorScore]_vars

\* generation in hundredths of a kWh, tariff and ratio in tenths, costs in rupees
FinanceArgs ==
    [system_size_kw : {3000},
     annual_generation_kwh : {-100, 0, 1, 100, 10000},
     tariff_rate_inr_per_kwh : {-10, 0, 4, 70},
     gross_cost_inr : {0, 1000, 2000},
     subsidy_amount_inr : {0, 500, 2000},
     self_consumption_ratio : {0, 8, 10}]

InitFinance ==
    /\ InitApp
    /\ config = DefaultConfig
    /\ call \in {Call("calculate_financial_predictions", a) : a \in FinanceArgs}

ApplyFinancialPredictions ==
    /\ call.fn = "calculate_financial_predictions"
    /\ ~call.done
    /\ call' = [call EXCEPT !.done = TRUE,
                   !.result = Some(calculate_financial_predictions(
                       call.args.system_size_kw, call.args.annual_generation_kwh,
                       call.args.tariff_rate_inr_per_kwh, call.args.gross_cost_inr,
                       call.args.subsidy_amount_inr, call.args.self_consumption_ratio))]
    /\ UNCHANGED <<users, current_user, session, submissions, config, response,
                   step1_ok, step2_ok, journey_subs,
                   projects, uploads, energy_logs, vendor_store>>

NextFinance == ApplyFinancialPredictions

SpecFinance == InitFinance /\ [][NextFinance]_vars

----------------------------------------------------------------------------
(* The sorts of the scored lists *)

\* scores of the list elements, in tenths of a point
ScoreArgs == {0, 500, 1000}

\* the lists of at most MaxScored scores
ScoreLists == UNION {[1..n -> ScoreArgs] : n \in 0..MaxScored}

\* vendors_with_scores before the sort, each vendor named by its position in
\* solar_vendors
ScoredVendors(scores) ==
    [i \in 1..Len(scores) |-> [id |-> i, recommendation_score |-> scores[i]]]

\* filtered_matches before the sort, each scheme named by its position in the
\* matcher's output
ScoredMatches(scores) ==
    [i \in 1..Len(scores) |-> [id |-> i, match_score |-> scores[i]]]

InitSort ==
    /\ InitApp
    /\ config = DefaultConfig
    /\ call \in {Call("vendors_with_scores.sort", ScoredVendors(l)) : l \in ScoreLists}
               \cup {Call("filtered_matches.sort", ScoredMatches(l)) : l \in ScoreLists}

ApplySortVendors ==
    /\ call.fn = "vendors_with_scores.sort"
    /\ ~call.done
    /\ call' = [call EXCEPT !.done = TRUE, !.result = Some(SortByScore(call.args))]
    /\ UNCHANGED <<users, current_user, session, submissions, config, response,
                   step1_ok, step2_ok, journey_subs,
                   projects, uploads, energy_logs, vendor_store>>

ApplySortMatches ==
    /\ call.fn = "filtered_matches.sort"
    /\ ~call.done
    /\ call' = [call EXCEPT !.done = TRUE, !.result = Some(SortByMatchScore(call.args))]
    /\ UNCHANGED <<users, current_user, session, submissions, config, response,
                   step1_ok, step2_ok, journey_subs,
                   projects, uploads, energy_logs, vendor_store>>

NextSort == ApplySortVendors \/ ApplySortMatches

SpecSort == InitSort /\ [][NextSort]_vars

----------------------------------------------------------------------------
(* Properties of the subsidy journey (specification Spec) *)

\* C1: a Results request of a signed-in client whose journey lacks at least
\* one of the six keys roof_area, monthly_bill, provider, state,
\* consumer_segment, grid_connection is answered by a redirect to Step1
\* (subsidy.eligibility) with an error flash, and stores nothing
C1_ResultsMissingKeyRedirects ==
    [][\A coverage_filter \in CoverageArgs :
          (/\ is_authenticated
           /\ \E k \in {"roof_area", "monthly_bill", "provider", "state",
                        "consumer_segment", "grid_connection"} :
                  k \notin DOMAIN JourneyOf(session)
           /\ results(coverage_filter))
          => /\ response' = Redirect("results", "subsidy.eligibility", "error")
             /\ submissions' = submissions
             /\ users' = users]_vars

\* C1: Results was requested after Step1 with Step2 skipped, and redirected
C1_Step2SkippedRedirected ==
    /\ response = Redirect("results", "subsidy.eligibility", "error")
    /\ "roof_area" \in DOMAIN JourneyOf(session)
    /\ "state" \notin DOMAIN JourneyOf(session)

\* C2: Results renders only if a successful Step1 submission was followed by
\* a successful Step2 submission with no reset in between, and Step2 accepts
\* a submission only with the Step1 key roof_area in the journey
C2_JourneyInOrder ==
    /\ (response.handler = "results" /\ response.kind = "render")
           => (step1_ok /\ step2_ok)
    /\ response = Redirect("site", "subsidy.results", "none")
           => (step1_ok /\ "roof_area" \in DOMAIN JourneyOf(session))

\* C2: Results rendered after Step1 and Step2
C2_ResultsRenderedInOrder ==
    /\ response.handler = "results"
    /\ response.kind = "render"
    /\ step1_ok
    /\ step2_ok
    /\ Len(submissions) > 0

\* C3 as stated: after Results has rendered, the session holds no
\* subsidy_journey
C3_JourneyDiscardedOnCompletion ==
    (response.handler = "results" /\ response.kind = "render")
        => ~HasJourney(session)

\* C3 amended: after Results has rendered, the session still holds the
\* subsidy_journey with all six required keys
C3_JourneyKeptOnCompletion ==
    (response.handler = "results" /\ response.kind = "render")
        => /\ HasJourney(session)
           /\ {"roof_area", "monthly_bill", "provider", "state",
               "consumer_segment", "grid_connection"} \subseteq DOMAIN JourneyOf(session)

\* C3: Results rendered for a completed journey, which is still in the session
C3_RenderedWithJourney ==
    /\ response.handler = "results"
    /\ response.kind = "render"
    /\ is_authenticated
    /\ users[current_user].journey_completed
    /\ HasJourney(session)

\* C4: after a restart the session holds no subsidy_journey and the user's
\* journey_completed flag is False, whatever the state before
C4_RestartDiscardsJourney ==
    response = Redirect("restart", "subsidy.eligibility", "none")
        => /\ ~HasJourney(session)
           /\ ~users[current_user].journey_completed

\* C4: a restart by a user who had completed a journey
C4_RestartAfterCompletion ==
    /\ response = Redirect("restart", "subsidy.eligibility", "none")
    /\ users[current_user].has_estimate
    /\ ~users[current_user].journey_completed
    /\ ~HasJourney(session)

\* C5 as stated: for one completed journey (one Step1 + Step2 pass) at most
\* one SubsidySubmission record is created, however often Results is requested
C5_WriteOncePerJourney == journey_subs <= 1

\* C6: in the list get_recommended_vendors returns, a vendor with the highest
\* recommendation_score is flagged, and a vendor is flagged exactly when its
\* score is at least 85% of the highest score
C6_TopVendorsFlagged ==
    (response.handler = "vendors" /\ response.kind = "render")
        => LET list == response.body.returned
               scores == {list[i].recommendation_score : i \in 1..Len(list)}
               top == CHOOSE t \in scores : \A x \in scores : x <= t
           IN /\ Len(list) = Len(solar_vendors)
              /\ \A i \in 1..Len(list) :
                    /\ list[i].recommendation_score = top => list[i].is_recommended
                    /\ list[i].is_recommended
                           <=> list[i].recommendation_score * 100 >= top * 85

\* C6: the marketplace rendered with flagged and unflagged vendors
C6_FlaggedAndUnflagged ==
    /\ response.handler = "vendors"
    /\ response.kind = "render"
    /\ \E i \in 1..Len(response.body.returned) : response.body.returned[i].is_recommended
    /\ \E i \in 1..Len(response.body.returned) : ~response.body.returned[i].is_recommended

\* C10 as stated: an ai-chat POST without a user message is answered with
\* HTTP 400 and a JSON {error}, in every configuration
C10_MissingMessageIs400 ==
    (response.handler = "ai_chat" /\ response.kind = "json" /\ response.body.missing)
        => (response.status = 400 /\ response.target = "error")

\* C11: every failure of ai_chat that is not a missing message (no API key,
\* library not importable, an exception of reading the request or of the
\* upstream call) is answered with a JSON {error} and HTTP 500, nothing leaves
\* the handler as an exception, and the upstream call is made at most once
C11_AiChatFailureIs500 ==
    [][\A body \in ChatBodies, upstream \in UpstreamOutcomes :
          (/\ is_authenticated
           /\ response'.handler = "ai_chat"
           /\ ai_chat(body, upstream)
           /\ \/ ~config.genai_importable
              \/ ~config.GEMINI_API_KEY
              \/ body.kind # "object"
              \/ (body.message \notin {NoValue, ""} /\ upstream = "error"))
          => /\ response'.kind = "json"
             /\ response'.status = 500
             /\ response'.target = "error"
             /\ response'.body.upstream_calls <= 1
             /\ (upstream = "error" /\ response'.body.upstream_calls = 1)
                    => response'.status = 500]_vars

\* C11: the upstream call was made once, failed, and was answered with 500
C11_UpstreamFailureAnswered ==
    /\ response.handler = "ai_chat"
    /\ response.kind = "json"
    /\ response.body.upstream_calls = 1
    /\ response.status = 500
    /\ response.target = "error"
    /\ config.GEMINI_API_KEY
    /\ config.genai_importable

\* C15: after any number of calls of get_recommended_vendors the module-level
\* list solar_vendors has the same records in the same order with the same
\* fields; recommendation_score, recommendation_reasons and is_recommended are
\* on the returned copies only
C15_VendorListUnchanged ==
    /\ vendor_store = solar_vendors
    /\ \A i \in 1..Len(vendor_store) :
           DOMAIN vendor_store[i] \cap {"recommendation_score", "recommendation_reasons",
                                        "is_recommended"} = {}
    /\ (response.handler = "vendors" /\ response.kind = "render")
           => /\ Len(response.body.returned) = Len(vendor_store)
              /\ \A i \in 1..Len(response.body.returned) :
                     {"recommendation_score", "recommendation_reasons", "is_recommended"}
                         \subseteq DOMAIN response.body.returned[i]

\* C15: the marketplace page was rendered from a call of get_recommended_vendors
C15_VendorsReturned ==
    /\ response.handler = "vendors"
    /\ response.kind = "render"
    /\ Len(response.body.returned) = Len(solar_vendors)
    /\ \E i \in 1..Len(response.body.returned) : response.body.returned[i].is_recommended

\* C17: results, vendors and view_data call estimate_system_size_kw only with
\* a non-zero roof_area or an annual consumption derived from the bill; when
\* vendors or view_data do not call it, the journey holds neither and
\* recommended_kw stays None; Results, which renders only behind its check of
\* the required keys, always calls it with at least one of the two
C17_SizingOnlyWithAnInput ==
    (response.handler \in {"results", "vendors", "view_data"} /\ response.kind = "render")
        => /\ response.body.sizing # None
                  => \/ Truthy(response.body.sizing[1].args.roof_area)
                     \/ Truthy(response.body.sizing[1].args.annual_consumption_kwh)
           /\ response.body.sizing = None
                  => /\ response.handler \in {"vendors", "view_data"}
                     /\ response.body.recommended_kw = None
                     /\ ~Truthy(GetNumber(JourneyOf(session), "roof_area"))
                     /\ ~Truthy(GetNumber(JourneyOf(session), "monthly_bill"))

\* C17: the marketplace was rendered for a journey with no roof area and no
\* bill, without a call of the estimator
C17_VendorsWithoutSizing ==
    /\ response.handler = "vendors"
    /\ response.kind = "render"
    /\ response.body.sizing = None
    /\ response.body.recommended_kw = None

\* C18: the recommended_kw that Results gets from estimate_system_size_kw,
\* passes to estimate_subsidy and stores in the user's last_system_kw is
\* strictly positive, Results calling the estimator with a roof area or an
\* annual consumption
C18_RecommendedKwPositive ==
    /\ \A u \in DOMAIN users :
           users[u].last_system_kw # None => users[u].last_system_kw[1] > 0
    /\ (response.handler = "results" /\ response.kind = "render")
           => /\ \/ Truthy(response.body.sizing[1].args.roof_area)
                 \/ Truthy(response.body.sizing[1].args.annual_consumption_kwh)
              /\ response.body.sizing[1].recommended_kw > 0
              /\ response.body.subsidy_kw = response.body.sizing[1].recommended_kw
              /\ users[current_user].last_system_kw
                     = Some(response.body.sizing[1].recommended_kw)

\* C18: Results rendered and stored a size
C18_SizeStored ==
    /\ response.handler = "results"
    /\ response.kind = "render"
    /\ users[current_user].last_system_kw # None
    /\ response.body.sizing[1].args.roof_area = Some(30)

\* C19: the result of estimate_subsidy that Results shows has net_cost =
\* max(0, gross_cost - central - state_subsidy), Results stores that net cost
\* in the user's last_net_cost_inr, and no stored net cost is negative
C19_NetCostFlooredAndStored ==
    /\ \A u \in DOMAIN users :
           users[u].last_net_cost_inr # None => users[u].last_net_cost_inr[1] >= 0
    /\ (response.handler = "results" /\ response.kind = "render")
           => LET result == response.body.result IN
              /\ response.body.subsidy_kw > 0
              /\ result.net_cost
                     = Max2(0, result.gross_cost - result.central - result.state_subsidy)
              /\ users[current_user].last_net_cost_inr = Some(result.net_cost)

\* C19: Results rendered and stored the net cost of a subsidised system
C19_NetCostStored ==
    /\ response.handler = "results"
    /\ response.kind = "render"
    /\ response.body.result.central + response.body.result.state_subsidy > 0
    /\ users[current_user].last_net_cost_inr = Some(response.body.result.net_cost)

\* C22: every Step1 request of a signed-in client first discards the journey:
\* after a request whose form does not validate (a GET included) the session
\* holds no journey, and after a validating POST the journey holds exactly
\* the keys roof_area, monthly_bill and provider, with the values of the form
C22_Step1DiscardsJourney ==
    [][\A method \in Methods, form \in SubsidyNumbersForm :
          (/\ is_authenticated
           /\ response'.handler = "eligibility"
           /\ eligibility(method, form))
          => IF method = "POST" /\ NumbersFormValid(form)
             THEN /\ HasJourney(session')
                  /\ JourneyOf(session') = [roof_area |-> form.roof_area[1],
                                            monthly_bill |-> form.monthly_bill[1],
                                            provider |-> form.provider]
             ELSE ~HasJourney(session')]_vars

\* C22: a user whose journey was completed and kept submitted Step1 again, and
\* the journey holds the three Step1 keys only
C22_Step1AfterCompletedJourney ==
    /\ response = Redirect("eligibility", "subsidy.site", "none")
    /\ is_authenticated
    /\ users[current_user].journey_completed
    /\ DOMAIN JourneyOf(session) = {"roof_area", "monthly_bill", "provider"}

\* C23: a Results request on a journey that lacks a required key, and a Step2
\* request on a journey without roof_area, are redirected to Step1 and change
\* no durable state: no SubsidySubmission is added, no user row changes
\* (journey_completed and the last_* estimate fields stay), and no project or
\* energy log changes
C23_RedirectChangesNothingDurable ==
    [][(/\ is_authenticated
        /\ response'.handler \in {"results", "site"}
        /\ \/ /\ \E k \in {"roof_area", "monthly_bill", "provider", "state",
                           "consumer_segment", "grid_connection"} :
                     k \notin DOMAIN JourneyOf(session)
              /\ \E coverage_filter \in CoverageArgs : results(coverage_filter)
           \/ /\ "roof_area" \notin DOMAIN JourneyOf(session)
              /\ \E method \in Methods, form \in SubsidySiteForm : site(method, form))
       => /\ response' = Redirect(response'.handler, "subsidy.eligibility", "error")
          /\ submissions' = submissions
          /\ users' = users
          /\ projects' = projects
          /\ energy_logs' = energy_logs]_vars

\* C23: a user with a stored estimate and a submission was redirected from
\* Results for a missing key
C23_RedirectedWithEstimateStored ==
    /\ response = Redirect("results", "subsidy.eligibility", "error")
    /\ is_authenticated
    /\ users[current_user].journey_completed
    /\ users[current_user].last_system_kw # None
    /\ \E i \in DOMAIN submissions : submissions[i].user_id = current_user

----------------------------------------------------------------------------
(* Properties of the projects pages (specification SpecProjects) *)

\* C12 as stated: a request of a signed-in user that names a project which
\* does not exist or is not theirs is answered with a 404, for the project
\* detail and for the project delete operation
C12_UnknownProjectIs404 ==
    [][\A project_id \in ProjectIdArgs :
          (/\ is_authenticated
           /\ ~\E p \in projects : p.id = project_id /\ p.user_id = current_user
           /\ \/ response'.handler = "project_detail" /\ project_detail(project_id)
              \/ response'.handler = "delete_project" /\ delete_project(project_id))
          => response'.status = 404]_vars

\* C12 amended: for a signed-in user who has completed the journey, the
\* detail of such a project is answered with a 404, and its deletion with a
\* redirect to the project list with an error flash, deleting nothing
C12_UnknownProjectDetail404DeleteRedirect ==
    [][\A project_id \in ProjectIdArgs :
          (/\ is_authenticated
           /\ users[current_user].journey_completed
           /\ ~\E p \in projects : p.id = project_id /\ p.user_id = current_user)
          => /\ (response'.handler = "project_detail" /\ project_detail(project_id))
                    => response' = Abort("project_detail", 404)
             /\ (response'.handler = "delete_project" /\ delete_project(project_id))
                    => /\ response' = Redirect("delete_project",
                                               "projects.list_projects", "error")
                       /\ projects' = projects
                       /\ uploads' = uploads]_vars

\* C12: a user who completed the journey asked to delete another user's
\* project and was sent back to the list with an error, the project kept
C12_ForeignProjectDeleteRefused ==
    /\ response = Redirect("delete_project", "projects.list_projects", "error")
    /\ is_authenticated
    /\ users[current_user].journey_completed
    /\ \E p \in projects : p.user_id # current_user

\* a request to one of the handlers of the projects blueprint
ProjectsRequest ==
    \/ list_projects
    \/ \E form_valid \in BOOLEAN, image \in BOOLEAN : add_project("POST", form_valid, image)
    \/ \E project_id \in ProjectIdArgs : project_detail(project_id)
    \/ \E project_id \in ProjectIdArgs : delete_project(project_id)

\* the rows of the other users
ForeignProjects(rows) == {p \in rows : p.user_id # current_user}

\* C27: a request of a signed-in user to the projects pages never shows,
\* deletes or changes a project of another user or its stored image: the list
\* and the detail page show rows of the requesting user only, the rows and
\* images of the others stay as they are, and a delete that is refused leaves
\* all projects and all stored images as they are
C27_ProjectIsolation ==
    [][(/\ response'.handler \in {"list_projects", "add_project", "project_detail",
                                   "delete_project"}
        /\ is_authenticated
        /\ ProjectsRequest)
           => /\ ForeignProjects(projects') = ForeignProjects(projects)
              /\ \A p \in ForeignProjects(projects) : (p.id \in uploads') = (p.id \in uploads)
              /\ (response'.handler = "project_detail" /\ response'.kind = "render")
                     => \E p \in projects : /\ p.id = response'.body.project_id
                                            /\ p.user_id = current_user
              /\ (response'.handler = "list_projects" /\ response'.kind = "render")
                     => \A id \in response'.body.projects :
                            \E p \in projects : p.id = id /\ p.user_id = current_user
              /\ response' = Redirect("delete_project", "projects.list_projects", "error")
                     => UNCHANGED <<projects, uploads>>]_vars

\* a user deleted the own project while another user's project and its image
\* were stored: these are still there
C27_OwnDeletedForeignKept ==
    /\ response = Redirect("delete_project", "projects.list_projects", "success")
    /\ is_authenticated
    /\ projects # {}
    /\ \A p \in projects : p.user_id # current_user /\ p.image /\ p.id \in uploads

----------------------------------------------------------------------------
(* Properties of the energy tracker (specification SpecTracker) *)

\* C13 as stated: every EnergyLog row that add_entry persists has kwh >= 0
\* and a revenue that is absent or >= 0
C13_EnergyLogsNonNegative ==
    \A i \in DOMAIN energy_logs :
        /\ energy_logs[i].kwh >= 0
        /\ energy_logs[i].revenue = None \/ energy_logs[i].revenue[1] >= 0

----------------------------------------------------------------------------
(* Properties of the scoring functions *)

\* C7 (SpecMatch): calculate_subsidy_match_score returns a value in [0, 100]
\* for all inputs, including zero cost, zero or no consumption, a subsidy
\* above the cost and any system size
C7_MatchScoreInRange ==
    Returned("calculate_subsidy_match_score")
        => (call.result[1] >= 0 /\ call.result[1] <= 1000)

\* C7: a call with a subsidy above the cost, whose sum of features exceeds 100
C7_MatchScoreAtCeiling ==
    /\ Returned("calculate_subsidy_match_score")
    /\ call.args.subsidy_amount_inr > call.args.gross_cost_inr
    /\ call.args.gross_cost_inr > 0
    /\ call.result = Some(1000)

\* C8 (SpecVendorScore): the vendor score of ml_scoring.calculate_vendor_score,
\* and of vendors.calculate_vendor_score for every vendor of solar_vendors,
\* lies in [0, 100]
C8_VendorScoreInRange ==
    (Returned("ml_calculate_vendor_score") \/ Returned("calculate_vendor_score"))
        => (call.result[1] >= 0 /\ call.result[1] <= 1000)

\* C8: a call with every component at its maximum
C8_VendorScoreAllMaximum ==
    /\ Returned("ml_calculate_vendor_score")
    /\ call.args = [rating |-> 5000, mnre_verified |-> TRUE, sentiment_score |-> 1000,
                    price_fairness |-> 1000, completion_rate |-> 1000,
                    warranty_years |-> 10000, years_experience |-> 12]
    /\ call.result = Some(1000)

\* C9 as stated (SpecFinance): payback_period_years is None when the returned
\* annual_savings_inr equals 0 and a finite number in every other case
C9_PaybackNoneIffSavingsZero ==
    Returned("calculate_financial_predictions")
        => (call.result[1].payback_period_years = None
                <=> call.result[1].annual_savings_inr = 0)

\* C9 amended (SpecFinance): payback_period_years is None exactly when the
\* unrounded product generation * ratio * tariff is not positive, and
\* otherwise the net cost divided by that product, rounded to two decimals
C9_PaybackNoneIffProductNotPositive ==
    Returned("calculate_financial_predictions")
        => LET product == call.args.annual_generation_kwh
                          * call.args.self_consumption_ratio
                          * call.args.tariff_rate_inr_per_kwh
               net == call.args.gross_cost_inr - call.args.subsidy_amount_inr
           IN IF product <= 0
              THEN call.result[1].payback_period_years = None
              ELSE call.result[1].payback_period_years
                       = Some(RoundHalfEven(net * 1000000, product))

\* C9: positive savings so small that they are returned as 0.0, with a
\* finite payback
C9_TinySavingsFinitePayback ==
    /\ Returned("calculate_financial_predictions")
    /\ call.args.annual_generation_kwh > 0
    /\ call.args.tariff_rate_inr_per_kwh > 0
    /\ call.args.self_consumption_ratio > 0
    /\ call.result[1].annual_savings_inr = 0
    /\ call.result[1].payback_period_years # None

\* C14 as stated (SpecFinance): for non-negative inputs every money and kWh
\* value that calculate_financial_predictions returns is non-negative, the
\* net cost included when the subsidy exceeds the gross cost
C14_FinanceOutputsNonNegative ==
    (/\ Returned("calculate_financial_predictions")
     /\ call.args.annual_generation_kwh >= 0
     /\ call.args.tariff_rate_inr_per_kwh >= 0
     /\ call.args.gross_cost_inr >= 0
     /\ call.args.subsidy_amount_inr >= 0
     /\ call.args.self_consumption_ratio >= 0)
        => /\ call.result[1].net_cost_inr >= 0
           /\ call.result[1].monthly_savings_inr >= 0
           /\ call.result[1].annual_savings_inr >= 0
           /\ call.result[1].self_consumed_kwh >= 0
           /\ call.result[1].co2_avoided_kg_per_year >= 0

\* C16 (SpecSort): the sorted list holds the elements of the input, by score
\* descending, and elements of equal score in their input order; this holds
\* for the sort of the vendors by recommendation_score and for the sort of
\* the displayed schemes by match_score
C16_SortedDescendingStable ==
    /\ Returned("vendors_with_scores.sort")
           => LET sorted == call.result[1] IN
              /\ Len(sorted) = Len(call.args)
              /\ \A i \in 1..Len(call.args) : \E j \in 1..Len(sorted) : sorted[j] = call.args[i]
              /\ \A i, j \in 1..Len(sorted) :
                     i < j => \/ sorted[i].recommendation_score > sorted[j].recommendation_score
                              \/ /\ sorted[i].recommendation_score = sorted[j].recommendation_score
                                 /\ sorted[i].id < sorted[j].id
    /\ Returned("filtered_matches.sort")
           => LET sorted == call.result[1] IN
              /\ Len(sorted) = Len(call.args)
              /\ \A i \in 1..Len(call.args) : \E j \in 1..Len(sorted) : sorted[j] = call.args[i]
              /\ \A i, j \in 1..Len(sorted) :
                     i < j => \/ sorted[i].match_score > sorted[j].match_score
                              \/ /\ sorted[i].match_score = sorted[j].match_score
                                 /\ sorted[i].id < sorted[j].id

\* C16: a list with two vendors of equal score behind a vendor of lower score
\* was sorted: the two moved to the front and kept their order
C16_TiedVendorsSorted ==
    /\ Returned("vendors_with_scores.sort")
    /\ Len(call.args) = 3
    /\ call.args[1].recommendation_score < call.args[2].recommendation_score
    /\ call.args[2].recommendation_score = call.args[3].recommendation_score
    /\ call.result[1] = <<call.args[2], call.args[3], call.args[1]>>

\* C20 as stated (SpecVendorScore): the score ml_scoring.calculate_vendor_score
\* returns is the documented weighted sum 40 * sentiment + 20 * mnre + 15 *
\* price_fairness + 15 * completion_rate + the warranty points (rounded to
\* one decimal and kept in [0, 100])
C20_VendorScoreIsDocumentedSum ==
    Returned("ml_calculate_vendor_score")
        => LET a == call.args
               warranty_points == Min2(10 * SCALE, Max2(2 * SCALE, a.warranty_years * 2))
               documented == a.sentiment_score * 40
                             + (IF a.mnre_verified THEN 20 * SCALE ELSE 0)
                             + a.price_fairness * 15
                             + a.completion_rate * 15
                             + warranty_points
           IN call.result = Some(Min2(1000, Max2(0, RoundHalfEven(documented * 10, SCALE))))

\* C21 as stated (SpecMatch): in calculate_subsidy_match_score every feature
\* contributes within its documented range before the final clamp (benefit
\* 0-30, state 0-15, segment 0-10, size 0-20, ease 0-10 for an ease of claim
\* in [0, 1], payback 0-15), the payback component for short payback periods
\* and a net cost of 0 included
C21_FeaturesWithinDocumentedRange ==
    (/\ Returned("calculate_subsidy_match_score")
     /\ call.args.ease_of_claim >= 0
     /\ call.args.ease_of_claim <= SCALE)
        => LET a == call.args
               InRange(points, top) == 0 <= points /\ points <= top * SCALE
           IN /\ InRange(BenefitScore(a.gross_cost_inr, a.subsidy_amount_inr), 30)
              /\ InRange(StateMatchScore(a.scheme, a.user_state), 15)
              /\ InRange(SegmentMatchScore(a.scheme, a.user_consumer_segment), 10)
              /\ InRange(SizeScore(a.user_system_size_kw), 20)
              /\ InRange(EaseScore(a.ease_of_claim), 10)
              /\ InRange(PaybackScore(a.gross_cost_inr, a.subsidy_amount_inr,
                                      a.user_annual_consumption_kwh), 15)

----------------------------------------------------------------------------
(* Properties of the journey gate *)

\* a request to one of the handlers of the dashboard, projects, tracker and
\* profile blueprints
GatedRequest ==
    \/ dashboard_index
    \/ list_projects
    \/ \E form_valid \in BOOLEAN, image \in BOOLEAN : add_project("POST", form_valid, image)
    \/ \E project_id \in ProjectIdArgs : project_detail(project_id)
    \/ \E project_id \in ProjectIdArgs : delete_project(project_id)
    \/ index
    \/ \E form \in GatedEntryForms : add_entry("POST", form)
    \/ view_profile
    \/ \E form_valid \in BOOLEAN, email \in Emails : edit_profile("POST", form_valid, email)

\* C24: while the journey_completed flag of the signed-in user is False, every
\* request to the dashboard, projects, tracker and profile blueprints is
\* answered by a redirect to Step1 that carries nothing of a page, and no user
\* row, project, stored image or energy log is created, changed or deleted
C24_GatedPagesRedirectToStep1 ==
    [][(/\ response'.handler \in GatedHandlers
        /\ is_authenticated
        /\ ~users[current_user].journey_completed
        /\ GatedRequest)
           => /\ response' = Redirect(response'.handler, "subsidy.eligibility", "none")
              /\ UNCHANGED <<users, projects, uploads, energy_logs, submissions>>]_vars

\* a delete of the user's own project was answered by the redirect to Step1
\* after a restart, and the project and its image are still stored
C24_DeleteRedirectedAfterRestart ==
    /\ is_authenticated
    /\ ~users[current_user].journey_completed
    /\ response = Redirect("delete_project", "subsidy.eligibility", "none")
    /\ \E p \in projects : p.user_id = current_user
    /\ uploads # {}

\* C25: a user's journey_completed flag turns from False to True only in a
\* Results request of that user that passed the prerequisite check, rendered
\* and stored a submission, and from True to False only in a restart of that
\* user; every other operation leaves it as it is, a new user row starts with
\* the flag False, and a user whose flag is True has a stored submission
C25_FlagFollowsResultsAndRestart ==
    [][/\ DOMAIN users \subseteq DOMAIN users'
       /\ \A u \in DOMAIN users :
              /\ (~users[u].journey_completed /\ users'[u].journey_completed)
                     => /\ u = current_user
                        /\ \E coverage_filter \in CoverageArgs : results(coverage_filter)
                        /\ ResultsPrerequisite(JourneyOf(session))
                        /\ response'.handler = "results"
                        /\ response'.kind = "render"
                        /\ Len(submissions') = Len(submissions) + 1
                        /\ SubSeq(submissions', 1, Len(submissions)) = submissions
                        /\ submissions'[Len(submissions')].user_id = u
              /\ (users[u].journey_completed /\ ~users'[u].journey_completed)
                     => /\ u = current_user
                        /\ restart
                        /\ response' = Redirect("restart", "subsidy.eligibility", "none")
       /\ \A u \in DOMAIN users' \ DOMAIN users :
              /\ ~users'[u].journey_completed
              /\ response' = Redirect("register", "subsidy.eligibility", "success")
       /\ \A u \in DOMAIN users' :
              users'[u].journey_completed
                  => \E i \in DOMAIN submissions' : submissions'[i].user_id = u]_vars

\* a user who completed the journey has restarted it: the flag is False again
\* and the submission of the completed journey is still stored
C25_RestartedAfterResults ==
    /\ is_authenticated
    /\ response = Redirect("restart", "subsidy.eligibility", "none")
    /\ ~users[current_user].journey_completed
    /\ users[current_user].has_estimate
    /\ \E i \in DOMAIN submissions : submissions[i].user_id = current_user

----------------------------------------------------------------------------
(* Properties of the rescoring of the matches *)

\* the base scores the matcher gives, in tenths
BaseMatchScores == {0, 60, 75, 90, 100}

\* C26 (SpecMatch): the value calculate_subsidy_match_score returns does not
\* depend on the scheme's base match_score: the same call on a scheme that
\* differs in match_score only returns the same score, and the score Results
\* stores on the match is the returned one whatever the matcher's score was
C26_ScoreIgnoresBaseMatchScore ==
    Returned("calculate_subsidy_match_score")
        => \A match_score \in BaseMatchScores :
               LET a == call.args
                   ml_score ==
                       calculate_subsidy_match_score(
                           [a.scheme EXCEPT !.match_score = match_score],
                           a.user_system_size_kw, a.user_annual_consumption_kwh,
                           a.user_state, a.user_consumer_segment, a.gross_cost_inr,
                           a.subsidy_amount_inr, a.ease_of_claim)
               IN /\ ml_score = call.result[1]
                  /\ RescoredMatchScore(match_score, ml_score)
                         = RescoredMatchScore(a.scheme.match_score, call.result[1])

\* a scheme the matcher scored 9.0 of 10 was scored below 60 of 100
C26_HighBaseLowScore ==
    /\ Returned("calculate_subsidy_match_score")
    /\ call.args.scheme.match_score = 90
    /\ call.result[1] < 600

----------------------------------------------------------------------------
(* Properties of the accounts (specification SpecProfile) *)

\* C28 as stated: after any sequence of register and edit_profile operations
\* no two User rows share the same normalized email
C28_EmailsUnique ==
    \A u \in DOMAIN users, v \in DOMAIN users :
        u # v => NormalizeEmail(users[u].email) # NormalizeEmail(users[v].email)

----------------------------------------------------------------------------
(* Properties of the energy totals (specification SpecEnergy) *)

\* the kWh of the user's logs of the given entry types, in thousandths
KwhOf(rows, user_id, entry_types) ==
    SumOf([i \in 1..Len(rows) |->
              IF rows[i].user_id = user_id /\ rows[i].entry_type \in entry_types
              THEN rows[i].kwh ELSE 0])

\* the number of days on which the user has a log of the given entry types
DaysOf(rows, user_id, entry_types) ==
    Cardinality({rows[i].date : i \in {j \in 1..Len(rows) :
                                           /\ rows[j].user_id = user_id
                                           /\ rows[j].entry_type \in entry_types}})

\* the user has a log in the table
HasLogs(rows, user_id) == \E i \in 1..Len(rows) : rows[i].user_id = user_id

\* the context holds the user's rows and no sample record
RealLogsReturned(rows, user_id, context) ==
    /\ context.has_real_logs
    /\ context.logs = EnergyLogsOf(rows, user_id)
    /\ \A i \in 1..Len(context.logs) : context.logs[i].user_id = user_id

\* C30 as stated: for a user with at least one log the three totals add up to
\* the sum of kwh over the user's logs, has_real_logs is True and no simulated
\* record is returned; simulated data is returned only for a user without logs
C30_TotalsAddUpToKwh ==
    Returned("build_energy_context")
        => LET rows == call.args.rows
               user_id == call.args.user_id
               context == call.result[1]
           IN IF HasLogs(rows, user_id)
              THEN /\ RealLogsReturned(rows, user_id, context)
                   /\ 10 * (context.totals.generation + context.totals.export
                              + context.totals.consumption)
                          = KwhOf(rows, user_id, ENTRY_TYPE_CHOICES)
              ELSE ~context.has_real_logs

\* C30 amended: each log is counted once, in the total of its type (generation,
\* export, and consumption for every other type); every total is a sum of
\* daily totals rounded to two decimals, so it is within 0.005 kWh per day of
\* the kwh of its logs, and the three totals add up to the sum of kwh exactly
\* when every kwh has at most two decimals; has_real_logs is True and the
\* user's own rows are returned; sample data is returned only for a user
\* without logs
C30_TotalsAreRoundedDailySums ==
    Returned("build_energy_context")
        => LET rows == call.args.rows
               user_id == call.args.user_id
               context == call.result[1]
               Near(total, entry_types) ==
                   Abs(10 * total - KwhOf(rows, user_id, entry_types))
                       <= 5 * DaysOf(rows, user_id, entry_types)
           IN IF HasLogs(rows, user_id)
              THEN /\ RealLogsReturned(rows, user_id, context)
                   /\ Near(context.totals.generation, {"generation"})
                   /\ Near(context.totals.export, {"export"})
                   /\ Near(context.totals.consumption,
                           ENTRY_TYPE_CHOICES \ {"generation", "export"})
                   /\ (\A i \in 1..Len(rows) : rows[i].kwh % 10 = 0)
                          => 10 * (context.totals.generation + context.totals.export
                                     + context.totals.consumption)
                                 = KwhOf(rows, user_id, ENTRY_TYPE_CHOICES)
              ELSE /\ ~context.has_real_logs
                   /\ \A i \in 1..Len(context.logs) : context.logs[i].user_id = "sample"

\* the totals of a user with a log of 1.25 kWh of type other and a log of
\* 0.004 kWh of type generation: 1.25 kWh of consumption, no generation
C30_OtherCountedAsConsumption ==
    /\ Returned("build_energy_context")
    /\ Len(call.result[1].logs) = 2
    /\ \E i \in 1..2 : /\ call.result[1].logs[i].entry_type = "other"
                        /\ call.result[1].logs[i].kwh = 1250
    /\ \E i \in 1..2 : /\ call.result[1].logs[i].entry_type = "generation"
                        /\ call.result[1].logs[i].kwh = 4
    /\ call.result[1].has_real_logs
    /\ call.result[1].totals.consumption = 125
    /\ call.result[1].totals.generation = 0

----------------------------------------------------------------------------
(* Properties of the language switch (specification SpecLanguage) *)

\* C29: after every step the language of the session, when present, is a key
\* of LANGUAGES, and the locale the selector returned is a key of LANGUAGES or
\* the default locale; set_language with an unknown code leaves the session as
\* it is
C29_SessionLanguageIsConfigured ==
    [][/\ "language" \in DOMAIN session' => session'["language"] \in LANGUAGES
       /\ (call'.fn = "get_locale" /\ call'.done)
              => call'.result[1] \in LANGUAGES \cup {BABEL_DEFAULT_LOCALE}
       /\ \A lang_code \in LangCodes \ LANGUAGES, referrer \in Referrers :
              (response'.handler = "set_language" /\ set_language(lang_code, referrer))
                  => session' = session]_vars

\* the language was set to Hindi and a later request for an unknown code was
\* answered with the error flash: the session still says Hindi
C29_UnknownCodeKeptHindi ==
    /\ response.handler = "set_language"
    /\ response.flash = "error"
    /\ "language" \in DOMAIN session
    /\ session["language"] = "hi"

====
